---- MODULE Spec2Model ----
(***************************************************************************)
(* Model of the shield-bot presence tracker / time ledger                  *)
(* (PatrolTimerManager, src/src/main.ts) and of the role-deadline          *)
(* escalation engine (RoleTrackingManager,                                 *)
(* src/src/managers/whitelist/userOperations.ts).                          *)
(*                                                                         *)
(* Time.  The code works in milliseconds since the Unix epoch.  Here the   *)
(* clock counts whole seconds since 2024-01-01T00:00:00Z, so that several  *)
(* calendar months fit in the integers of the model checker; every         *)
(* duration the code keeps in ms is kept in seconds (ms = s * MsPerSecond).*)
(* One guild is modelled; every table is keyed by the user only.           *)
(***************************************************************************)
EXTENDS Integers, Sequences, FiniteSets, TLC

\* ------------------------------------------------------------------ bounds
MsPerSecond == 1000
MinSessionMs == 3000
MaxElapsed == 9004          \* the tracker clock runs from StartOfRun to StartOfRun + MaxElapsed
MaxQueryDelay == 2          \* a total is queried up to this long after a reset
EarlierPatrol == 500        \* seconds u1 has on the ledger when the run begins
MaxPending == 1             \* zone-enter handlers of one user waiting on the leave lookup
MaxSteps == 6              \* operations and events in one run of the tracker
MaxTotal == 18010           \* administrative adjustments keep totals at or below this

Users == {"u1", "u2"}
Channels == {"c1", "c2"}    \* voice channels of the tracked category
Out == "out"                \* not connected, or connected outside the tracked category
Years == 2024 .. 2025
MonthKeys == Years \X (1 .. 12)

Min(a, b) == IF a < b THEN a ELSE b
Max(a, b) == IF a > b THEN a ELSE b

\* ---------------------------------------------------------------- calendar
SecPerDay == 24 * 60 * 60

IsLeap(y) == (y % 4 = 0 /\ y % 100 # 0) \/ y % 400 = 0

\* m is 0-based, as in Date.UTC and getUTCMonth
DaysInMonth(y, m) ==
  CASE m \in {0, 2, 4, 6, 7, 9, 11} -> 31
    [] m \in {3, 5, 8, 10} -> 30
    [] OTHER -> IF IsLeap(y) THEN 29 ELSE 28

RECURSIVE DaysBeforeMonth(_, _)
DaysBeforeMonth(y, m) ==
  IF m = 0 THEN 0 ELSE DaysBeforeMonth(y, m - 1) + DaysInMonth(y, m - 1)

RECURSIVE DaysBeforeYear(_)
DaysBeforeYear(y) ==
  IF y <= 2024 THEN 0
  ELSE DaysBeforeYear(y - 1) + (IF IsLeap(y - 1) THEN 366 ELSE 365)

\* Date.UTC(y, m, 1, 0, 0, 0, 0), in seconds since 2024-01-01T00:00:00Z
DateUTC(y, m) == (DaysBeforeYear(y) + DaysBeforeMonth(y, m)) * SecPerDay

\* Date.UTC(y, m, d, h, mi, s), d is 1-based
Instant(y, m, d, h, mi, s) ==
  DateUTC(y, m) + (d - 1) * SecPerDay + h * 3600 + mi * 60 + s

getUTCFullYear(t) ==
  CHOOSE y \in 2024 .. 2026 : DateUTC(y, 0) <= t /\ t < DateUTC(y + 1, 0)

getUTCMonth(t) ==
  LET y == getUTCFullYear(t)
  IN CHOOSE m \in 0 .. 11 :
       /\ DateUTC(y, m) <= t
       /\ t < DateUTC(IF m = 11 THEN y + 1 ELSE y, (m + 1) % 12)

\* ------------------------------------------------------------------- state
VARIABLES
  now,                      \* Date.now()
  up,                       \* the process is running
  voice,                    \* platform: where each user is connected
  inGuild,                  \* platform: members of the guild
  loaState,                 \* leave lookup of each user: "none", "active", "error"
  tracked,                  \* PatrolTimerManager.tracked
  pausedUsers,              \* PatrolTimerManager.pausedUsers
  pausedGuilds,             \* PatrolTimerManager.pausedGuilds (this guild is in it)
  pendingStart,             \* checkLOAAndStartTracking calls waiting on getActiveLOA
  activeVoicePatrolSession, \* table: crash-recovery records
  voicePatrolTime,          \* table: all-time totalMs
  voicePatrolMonthlyTime,   \* table: totalMs per (year, month)
  memberRoles,              \* platform: the roles each member holds
  memberCache,              \* platform client: the members held in guild.members.cache
  roleAssignmentTracking,   \* table: [id, assignedAt] per (user, role)
  nextAssignmentId,         \* table: the autoincrement id the next record gets
  roleTrackingWarning,      \* table: the warnings and staff pings already recorded
  steps,                    \* operations and events so far
  last,                     \* the operation that made the last step
  failedFinalize,           \* history: per user, the finalize whose ledger write rejected
  guildSettings,            \* table: roleTrackingConfig and roleTrackingInitializedAt
  audit,                    \* history: sessions credited, latest unpause, grant of each held role
  sweepRuns                 \* the sweeps of the guild that are running, and the messages they sent

trackerVars == <<now, up, voice, inGuild, loaState, tracked, pausedUsers,
                 pausedGuilds, pendingStart, activeVoicePatrolSession,
                 voicePatrolTime, voicePatrolMonthlyTime>>

escVars == <<memberRoles, memberCache, roleAssignmentTracking, nextAssignmentId,
             roleTrackingWarning>>

vars == <<trackerVars, escVars, steps, last, failedFinalize, guildSettings, audit, sweepRuns>>

NoSession == [channelId |-> "none", startedAt |-> -1]
TrackedUser(c, t) == [channelId |-> c, startedAt |-> t]

\* the tracked roles of the guild's roleTrackingConfig, and settings.loaRoleId
Roles == {"rTime", "rPatrol", "rNoPing", "rExempt"}
LoaRole == "loa"

NoAssignment == [id |-> 0, assignedAt |-> -1]

\* no finalize of the user has failed
NoFailure == [startedAt |-> -1, endedAt |-> -1, total |-> FALSE, months |-> {}]

\* no sweep is running and none has sent a message
SweepIds == {"daily", "manual"}
NoSweepRuns == [of |-> [id \in SweepIds |-> [pc |-> "idle", items |-> <<>>, i |-> 1]], sent |-> {}, overlapped |-> FALSE]

\* nothing credited, nobody unpaused and no tracked role granted yet
NoAudit == [credited |-> {}, unpausedAt |-> [u \in Users |-> -1], grantedAt |-> [u \in Users |-> [r \in Roles |-> -1]]]

Warning(index, offset) == [index |-> index, offset |-> offset]

\* settings.roleTrackingConfig of the guild: a role with the TIME condition, a role
\* with PATROL and TIME, and a role with the TIME condition, one warning and no
\* staff ping offset.  Offsets are duration strings.
roleTrackingConfig ==
  [r \in Roles |->
     IF r = "rTime"
     THEN [enabled |-> TRUE,
           conditions |-> <<"TIME">>,
           deadlineDuration |-> <<"2", " ", "w", "e", "e", "k", "s">>,
           warnings |-> <<Warning(0, <<"1", " ", "w", "e", "e", "k">>),
                          Warning(1, <<"1", "0", " ", "d", "a", "y", "s">>)>>,
           staffPingOffset |-> <<"2", " ", "w", "e", "e", "k", "s">>]
     ELSE IF r = "rNoPing"
     THEN [enabled |-> TRUE,
           conditions |-> <<"TIME">>,
           deadlineDuration |-> <<"2", " ", "w", "e", "e", "k", "s">>,
           warnings |-> <<Warning(0, <<"1", " ", "w", "e", "e", "k">>)>>]
     ELSE IF r = "rExempt"
     THEN [enabled |-> TRUE,
           conditions |-> <<>>,
           deadlineDuration |-> <<"2", " ", "w", "e", "e", "k", "s">>,
           warnings |-> <<Warning(0, <<"1", " ", "w", "e", "e", "k">>)>>,
           staffPingOffset |-> <<"2", " ", "w", "e", "e", "k", "s">>]
     ELSE [enabled |-> TRUE,
           conditions |-> <<"PATROL", "TIME">>,
           patrolTimeThresholdHours |-> 2,
           deadlineDuration |-> <<"1", "4", "d">>,
           warnings |-> <<Warning(0, <<"1", " ", "w", "e", "e", "k">>)>>,
           staffPingOffset |-> <<"2", " ", "W", "e", "e", "k", "s">>]]

\* settings.roleTrackingInitializedAt
roleTrackingInitializedAt == Instant(2024, 0, 5, 12, 0, 0)

\* the settings row of the guild while the trackers and the sweeps run
SettingsOfTheRun ==
  [roleTrackingConfig |-> roleTrackingConfig,
   roleTrackingInitializedAt |-> roleTrackingInitializedAt]

\* nobody holds a tracked role and the role-tracking tables are empty
EscalationIdle ==
  /\ memberRoles = [u \in Users |-> {}]
  /\ memberCache = Users
  /\ roleAssignmentTracking = [u \in Users |-> [r \in Roles |-> NoAssignment]]
  /\ nextAssignmentId = 1
  /\ roleTrackingWarning = {}

StartOfRun == Instant(2024, 0, 31, 23, 0, 0)
TickSteps == {2, 9000}
AdjustDeltas == {-9000, 9000}

\* ----------------------------------------------------------- pure helpers
isUserPaused(userId) == pausedGuilds \/ userId \in pausedUsers

\* variant: only the manual pause state is consulted at finalize
isUserPausedOrOnLOA_manualOnly(userId) == isUserPaused(userId)

\* getActiveLOA throws when loaState is "error"; isUserPausedOrOnLOA catches (fail open)
isUserPausedOrOnLOA(userId) ==
  \/ isUserPaused(userId)
  \/ loaState[userId] = "active"

\* variant: the whole interval is booked on the month it started in
persistMonthly_noSplit(rows, userId, curStart, endMs) ==
  IF curStart < endMs
  THEN [rows EXCEPT ![userId][<<getUTCFullYear(curStart), getUTCMonth(curStart) + 1>>] =
          @ + (endMs - curStart)]
  ELSE rows

\* variant: only the segment up to the first month boundary is booked
persistMonthly_firstSegment(rows, userId, curStart, endMs) ==
  IF curStart < endMs
  THEN LET y == getUTCFullYear(curStart)
           m == getUTCMonth(curStart)
           nextMonthStart == DateUTC(IF m = 11 THEN y + 1 ELSE y, (m + 1) % 12)
       IN [rows EXCEPT ![userId][<<y, m + 1>>] = @ + (Min(endMs, nextMonthStart) - curStart)]
  ELSE rows

RECURSIVE persistMonthly(_, _, _, _)
persistMonthly(rows, userId, curStart, endMs) ==
  IF curStart < endMs
  THEN LET y == getUTCFullYear(curStart)
           m == getUTCMonth(curStart)
           nextMonthStart == DateUTC(IF m = 11 THEN y + 1 ELSE y, (m + 1) % 12)
           segmentEndMs == Min(endMs, nextMonthStart)
           segDelta == segmentEndMs - curStart
           rows2 == IF segDelta > 0
                    THEN [rows EXCEPT ![userId][<<y, m + 1>>] = @ + segDelta]
                    ELSE rows
       IN persistMonthly(rows2, userId, segmentEndMs, endMs)
  ELSE rows

\* The persistent and in-memory state one finalize reads and writes.
Ledger == [tracked |-> tracked, active |-> activeVoicePatrolSession,
           total |-> voicePatrolTime, monthly |-> voicePatrolMonthlyTime]

\* variant: no minimum session length
stopOutcome_noMinimum(L, userId) ==
  IF L.tracked[userId] = NoSession THEN "nosession"
  ELSE IF isUserPausedOrOnLOA(userId) THEN "suspended"
  ELSE "credited"

stopOutcome(L, userId) ==
  IF L.tracked[userId] = NoSession THEN "nosession"
  ELSE IF isUserPausedOrOnLOA(userId) THEN "suspended"
  ELSE IF (now - L.tracked[userId].startedAt) < MinSessionMs \div MsPerSecond THEN "short"
  ELSE "credited"

\* variant: the session stays in the map while the finalize awaits
takeSession_keeps(L, userId) == L

\* the synchronous head of stopTrackingAndPersist: the session is read and deleted
\* from the map before the first await
takeSession(L, userId) == [L EXCEPT !.tracked[userId] = NoSession]

\* stopTrackingAndPersist: the ledger after finalizing userId at time now
stopTrackingAndPersist(L, userId) ==
  LET t == L.tracked[userId]
      delta == now - t.startedAt
      removed == takeSession(L, userId)
  IN CASE stopOutcome(L, userId) = "nosession" -> L
       [] stopOutcome(L, userId) = "suspended" ->
            [removed EXCEPT !.active[userId] = NoSession]
       [] stopOutcome(L, userId) = "short" -> removed
       [] OTHER ->
            [removed EXCEPT !.active[userId] = NoSession,
                            !.total[userId] = @ + delta,
                            !.monthly = persistMonthly(@, userId, t.startedAt, now)]

\* variant: a start signal always opens a fresh session
startTracking_clobber(L, userId, channelId) ==
  [L EXCEPT !.tracked[userId] = TrackedUser(channelId, now),
            !.active[userId] = TrackedUser(channelId, now)]

\* startTracking: first writer wins
startTracking(L, userId, channelId) ==
  IF L.tracked[userId] # NoSession THEN L
  ELSE [L EXCEPT !.tracked[userId] = TrackedUser(channelId, now),
                 !.active[userId] = TrackedUser(channelId, now)]

SetLedger(L) ==
  /\ tracked' = L.tracked
  /\ activeVoicePatrolSession' = L.active
  /\ voicePatrolTime' = L.total
  /\ voicePatrolMonthlyTime' = L.monthly

\* -------------------------------------------------------------------- Init
\* The database outlives the process: u1 already has time booked in January 2024.
Init ==
  /\ now = StartOfRun
  /\ up = TRUE
  /\ voice = [u \in Users |-> Out]
  /\ inGuild = Users
  /\ loaState = [u \in Users |-> "none"]
  /\ tracked = [u \in Users |-> NoSession]
  /\ pausedUsers = {}
  /\ pausedGuilds = FALSE
  /\ pendingStart = [u \in Users |-> <<>>]
  /\ activeVoicePatrolSession = [u \in Users |-> NoSession]
  /\ voicePatrolTime = [u \in Users |-> IF u = "u1" THEN EarlierPatrol ELSE 0]
  /\ voicePatrolMonthlyTime =
       [u \in Users |-> [k \in MonthKeys |->
          IF u = "u1" /\ k = <<2024, 1>> THEN EarlierPatrol ELSE 0]]
  /\ EscalationIdle
  /\ steps = 0
  /\ failedFinalize = [u \in Users |-> NoFailure]
  /\ guildSettings = SettingsOfTheRun
  /\ audit = NoAudit
  /\ sweepRuns = NoSweepRuns
  /\ last = [op |-> "init"]

\* ----------------------------------------------------------------- actions
\* every operation or event of the tracker uses one unit of the run's budget and
\* leaves the role-tracking tables alone
Operation == steps < MaxSteps /\ steps' = steps + 1 /\ UNCHANGED <<escVars, guildSettings, sweepRuns>>

\* an operation that is not an unpause of an open session and credits nothing the
\* audit follows
Spend == Operation /\ UNCHANGED audit

\* an operation all of whose database writes succeed
Budget == Spend /\ UNCHANGED failedFinalize

\* time passes
Tick ==
  \E d \in TickSteps :
    /\ Budget
    /\ now + d <= StartOfRun + MaxElapsed
    /\ now' = now + d
    /\ last' = [op |-> "tick"]
    /\ UNCHANGED <<up, voice, inGuild, loaState, tracked, pausedUsers, pausedGuilds,
                   pendingStart, activeVoicePatrolSession, voicePatrolTime,
                   voicePatrolMonthlyTime>>

\* the leave-of-absence collaborator changes its answer for a user
SetLOA ==
  \E u \in Users, v \in {"none", "active", "error"} :
    /\ Budget
    /\ loaState[u] # v
    /\ loaState' = [loaState EXCEPT ![u] = v]
    /\ last' = [op |-> "setLOA"]
    /\ UNCHANGED <<now, up, voice, inGuild, tracked, pausedUsers, pausedGuilds,
                   pendingStart, activeVoicePatrolSession, voicePatrolTime,
                   voicePatrolMonthlyTime>>

\* handleVoiceStateUpdate, nowTracked && !wasTracked: checkLOAAndStartTracking runs
\* up to its await of getActiveLOA (or returns at once for a manually paused user)
VoiceJoin ==
  \E u \in inGuild, c \in Channels :
    /\ Budget
    /\ up
    /\ voice[u] = Out
    /\ Len(pendingStart[u]) < MaxPending
    /\ voice' = [voice EXCEPT ![u] = c]
    /\ pendingStart' = IF isUserPaused(u) THEN pendingStart
                       ELSE [pendingStart EXCEPT ![u] = Append(@, c)]
    /\ last' = [op |-> "join", user |-> u, paused |-> isUserPaused(u), notices |-> {},
                pending |-> pendingStart[u]]
    /\ UNCHANGED <<now, up, inGuild, loaState, tracked, pausedUsers, pausedGuilds,
                   activeVoicePatrolSession, voicePatrolTime, voicePatrolMonthlyTime>>

\* the leave notification settings of the guild: a channel and staff roles are set
loaNotificationSettings == [loaNotificationChannelId |-> "staffLog", staffRoleIds |-> <<"staff">>]

\* what loaManager.getActiveLOA can answer for the user: the flag of an active
\* leave is the member's choice; no leave and a rejected lookup carry none
getActiveLOA(u) ==
  IF loaState[u] = "active" THEN {[notificationsPaused |-> b] : b \in BOOLEAN}
  ELSE {[notificationsPaused |-> FALSE]}

\* variant: the notices are sent whatever the flag of the leave
leaveNotices_always(loa) == {"staff", "user"}

\* checkLOAAndNotify and notifyUserAboutLOATracking for an active leave: the staff
\* alert needs the channel and the staff roles, both need notifications not paused
leaveNotices(loa) ==
  (IF /\ ~loa.notificationsPaused
      /\ loaNotificationSettings.loaNotificationChannelId # ""
      /\ Len(loaNotificationSettings.staffRoleIds) > 0
   THEN {"staff"} ELSE {})
  \cup (IF ~loa.notificationsPaused THEN {"user"} ELSE {})

\* checkLOAAndStartTracking after getActiveLOA settled: a throw is caught by the
\* caller's .catch, an active leave notifies, otherwise startTracking
checkLOAAndStartTracking ==
  \E u \in Users : \E loa \in getActiveLOA(u) :
    /\ Budget
    /\ up
    /\ pendingStart[u] # <<>>
    /\ pendingStart' = [pendingStart EXCEPT ![u] = Tail(@)]
    /\ IF loaState[u] = "none"
       THEN SetLedger(startTracking(Ledger, u, Head(pendingStart[u])))
       ELSE UNCHANGED <<tracked, activeVoicePatrolSession, voicePatrolTime,
                        voicePatrolMonthlyTime>>
    /\ last' = [op |-> "start", user |-> u, loa |-> loaState[u],
                channel |-> Head(pendingStart[u]), session |-> tracked[u],
                notificationsPaused |-> loa.notificationsPaused,
                notices |-> IF loaState[u] = "active" THEN leaveNotices(loa) ELSE {}]
    /\ UNCHANGED <<now, up, voice, inGuild, loaState, pausedUsers, pausedGuilds>>

\* variant: a move between two tracked channels ends the session and opens a new one
VoiceMove_restart ==
  \E u \in Users, c \in Channels :
    /\ Budget
    /\ up
    /\ voice[u] \in Channels
    /\ voice[u] # c
    /\ voice' = [voice EXCEPT ![u] = c]
    /\ IF tracked[u] # NoSession
       THEN /\ tracked' = [tracked EXCEPT ![u] = TrackedUser(c, now)]
            /\ activeVoicePatrolSession' =
                 [activeVoicePatrolSession EXCEPT ![u] = TrackedUser(c, now)]
       ELSE UNCHANGED <<tracked, activeVoicePatrolSession>>
    /\ last' = [op |-> "move", user |-> u, session |-> tracked[u],
                record |-> activeVoicePatrolSession[u],
                total |-> voicePatrolTime[u], monthly |-> voicePatrolMonthlyTime[u]]
    /\ UNCHANGED <<now, up, inGuild, loaState, pausedUsers, pausedGuilds, pendingStart,
                   voicePatrolTime, voicePatrolMonthlyTime>>

\* handleVoiceStateUpdate, wasTracked && nowTracked: the session keeps startedAt
VoiceMove ==
  \E u \in Users, c \in Channels :
    /\ Budget
    /\ up
    /\ voice[u] \in Channels
    /\ voice[u] # c
    /\ voice' = [voice EXCEPT ![u] = c]
    /\ IF tracked[u] # NoSession
       THEN /\ tracked' = [tracked EXCEPT ![u].channelId = c]
            /\ activeVoicePatrolSession' =
                 [activeVoicePatrolSession EXCEPT ![u] =
                    IF @ # NoSession THEN [@ EXCEPT !.channelId = c]
                    ELSE TrackedUser(c, tracked[u].startedAt)]
       ELSE UNCHANGED <<tracked, activeVoicePatrolSession>>
    /\ last' = [op |-> "move", user |-> u, session |-> tracked[u],
                record |-> activeVoicePatrolSession[u],
                total |-> voicePatrolTime[u], monthly |-> voicePatrolMonthlyTime[u]]
    /\ UNCHANGED <<now, up, inGuild, loaState, pausedUsers, pausedGuilds, pendingStart,
                   voicePatrolTime, voicePatrolMonthlyTime>>

\* what a finalize of u found: the session, the suspension state and the ledger rows
StopRecord(u) ==
  [op |-> "stop", user |-> u, session |-> tracked[u],
   paused |-> isUserPaused(u), loa |-> loaState[u],
   totalBefore |-> voicePatrolTime[u],
   monthlyBefore |-> voicePatrolMonthlyTime[u]]

\* handleVoiceStateUpdate, wasTracked && !nowTracked
VoiceLeave ==
  \E u \in Users :
    /\ Budget
    /\ up
    /\ voice[u] \in Channels
    /\ voice' = [voice EXCEPT ![u] = Out]
    /\ SetLedger(stopTrackingAndPersist(Ledger, u))
    /\ last' = StopRecord(u)
    /\ UNCHANGED <<now, up, inGuild, loaState, pausedUsers, pausedGuilds, pendingStart>>

\* while the process is down a user who is not connected leaves the guild
LeaveGuild ==
  \E u \in inGuild :
    /\ Budget
    /\ ~up
    /\ voice[u] = Out
    /\ pendingStart[u] = <<>>
    /\ inGuild' = inGuild \ {u}
    /\ last' = [op |-> "leaveGuild"]
    /\ UNCHANGED <<now, up, voice, loaState, tracked, pausedUsers, pausedGuilds,
                   pendingStart, activeVoicePatrolSession, voicePatrolTime,
                   voicePatrolMonthlyTime>>

\* the process dies: everything in memory is lost
Crash ==
  /\ Budget
  /\ up
  /\ up' = FALSE
  /\ tracked' = [u \in Users |-> NoSession]
  /\ pausedUsers' = {}
  /\ pausedGuilds' = FALSE
  /\ pendingStart' = [u \in Users |-> <<>>]
  /\ last' = [op |-> "crash"]
  /\ UNCHANGED <<now, voice, inGuild, loaState, activeVoicePatrolSession,
                 voicePatrolTime, voicePatrolMonthlyTime>>

\* while the process is down users come and go unobserved
DownVoice ==
  \E u \in inGuild, c \in Channels \cup {Out} :
    /\ Budget
    /\ ~up
    /\ voice[u] # c
    /\ voice' = [voice EXCEPT ![u] = c]
    /\ last' = [op |-> "downVoice"]
    /\ UNCHANGED <<now, up, inGuild, loaState, tracked, pausedUsers, pausedGuilds,
                   pendingStart, activeVoicePatrolSession, voicePatrolTime,
                   voicePatrolMonthlyTime>>

\* resumeActiveForGuild, one user: occupants are (re)started, a loaded session of an
\* absent user is finalized if the member resolves and dropped otherwise
resumeUser(L, u) ==
  IF voice[u] \in Channels THEN startTracking(L, u, voice[u])
  ELSE IF L.tracked[u] = NoSession THEN L
  ELSE IF u \in inGuild THEN stopTrackingAndPersist(L, u)
  ELSE [L EXCEPT !.tracked[u] = NoSession, !.active[u] = NoSession]

RECURSIVE resumeActiveForGuild(_, _)
resumeActiveForGuild(L, S) ==
  IF S = {} THEN L
  ELSE LET u == CHOOSE x \in S : TRUE
       IN resumeActiveForGuild(resumeUser(L, u), S \ {u})

\* init(): load the crash-recovery records, then reconcile with the voice states
Startup ==
  /\ Budget
  /\ ~up
  /\ up' = TRUE
  /\ LET loaded == [Ledger EXCEPT !.tracked = activeVoicePatrolSession]
     IN /\ SetLedger(resumeActiveForGuild(loaded, Users))
        /\ last' = [op |-> "startup", loaded |-> activeVoicePatrolSession,
                    totalBefore |-> voicePatrolTime,
                    monthlyBefore |-> voicePatrolMonthlyTime]
  /\ UNCHANGED <<now, voice, inGuild, loaState, pausedUsers, pausedGuilds, pendingStart>>

\* variant: the rows are cleared but the open session keeps its start time
reset_noRebase(userId) ==
  /\ voicePatrolTime' = [voicePatrolTime EXCEPT ![userId] = 0]
  /\ activeVoicePatrolSession' = [activeVoicePatrolSession EXCEPT ![userId] = NoSession]
  /\ tracked' = tracked

\* reset(guildId, userId)
reset(userId) ==
  /\ voicePatrolTime' = [voicePatrolTime EXCEPT ![userId] = 0]
  /\ activeVoicePatrolSession' = [activeVoicePatrolSession EXCEPT ![userId] = NoSession]
  /\ tracked' = [tracked EXCEPT ![userId] =
                   IF @ # NoSession THEN [@ EXCEPT !.startedAt = now] ELSE @]

\* reset(guildId)
resetAll ==
  /\ voicePatrolTime' = [u \in Users |-> 0]
  /\ activeVoicePatrolSession' = [u \in Users |-> NoSession]
  /\ tracked' = [u \in Users |->
                   IF tracked[u] # NoSession THEN [tracked[u] EXCEPT !.startedAt = now]
                   ELSE tracked[u]]

Reset ==
  /\ Budget
  /\ up
  /\ \/ \E u \in Users :
          /\ reset(u)
          /\ last' = [op |-> "reset", users |-> {u}, sessions |-> tracked]
     \/ /\ resetAll
        /\ last' = [op |-> "reset", users |-> Users, sessions |-> tracked]
  /\ UNCHANGED <<now, up, voice, inGuild, loaState, pausedUsers, pausedGuilds,
                 pendingStart, voicePatrolMonthlyTime>>

\* getUserTotal(guildId, userId) asked at time t
getUserTotalAt(userId, t) ==
  LET base == voicePatrolTime[userId]
  IN IF ~isUserPaused(userId) /\ ~isUserPausedOrOnLOA(userId) /\ tracked[userId] # NoSession
     THEN base + (t - tracked[userId].startedAt)
     ELSE base

getUserTotal(userId) == getUserTotalAt(userId, now)

\* variant: the open session of the user is not looked at
pauseUser_ignoresSession ==
  \E u \in Users :
    /\ Budget
    /\ up
    /\ pausedUsers' = pausedUsers \cup {u}
    /\ last' = [op |-> "pauseUser", user |-> u, result |-> TRUE, before |-> pausedUsers]
    /\ UNCHANGED <<now, up, voice, inGuild, loaState, tracked, pausedGuilds, pendingStart,
                   activeVoicePatrolSession, voicePatrolTime, voicePatrolMonthlyTime>>

\* pauseUser(guildId, userId)
pauseUser ==
  \E u \in Users :
    /\ Budget
    /\ up
    /\ pausedUsers' = IF tracked[u] # NoSession THEN pausedUsers ELSE pausedUsers \cup {u}
    /\ last' = [op |-> "pauseUser", user |-> u, result |-> tracked[u] = NoSession,
                before |-> pausedUsers]
    /\ UNCHANGED <<now, up, voice, inGuild, loaState, tracked, pausedGuilds, pendingStart,
                   activeVoicePatrolSession, voicePatrolTime, voicePatrolMonthlyTime>>

\* tracked.startedAt = new Date(), if the user is currently tracked
rebaseSession(session) ==
  IF session # NoSession THEN [session EXCEPT !.startedAt = now] ELSE session

\* the audit notes the unpause of every user in S who has an open session
Unpaused(S) ==
  [audit EXCEPT !.unpausedAt =
     [u \in Users |-> IF u \in S /\ tracked[u] # NoSession THEN now ELSE @[u]]]

unpauseUser ==
  \E u \in Users :
    /\ Operation
    /\ up
    /\ u \in pausedUsers
    /\ pausedUsers' = pausedUsers \ {u}
    /\ tracked' = [tracked EXCEPT ![u] = rebaseSession(@)]
    /\ audit' = Unpaused({u})
    /\ last' = [op |-> "unpauseUser", user |-> u]
    /\ UNCHANGED failedFinalize
    /\ UNCHANGED <<now, up, voice, inGuild, loaState, pausedGuilds, pendingStart,
                   activeVoicePatrolSession, voicePatrolTime, voicePatrolMonthlyTime>>

pauseGuild ==
  /\ Budget
  /\ up
  /\ pausedGuilds' = IF \E u \in Users : tracked[u] # NoSession THEN pausedGuilds ELSE TRUE
  /\ last' = [op |-> "pauseGuild", result |-> \A u \in Users : tracked[u] = NoSession,
              before |-> pausedGuilds]
  /\ UNCHANGED <<now, up, voice, inGuild, loaState, tracked, pausedUsers, pendingStart,
                 activeVoicePatrolSession, voicePatrolTime, voicePatrolMonthlyTime>>

unpauseGuild ==
  /\ Operation
  /\ up
  /\ pausedGuilds
  /\ pausedGuilds' = FALSE
  /\ tracked' = [u \in Users |-> rebaseSession(tracked[u])]
  /\ audit' = Unpaused(Users)
  /\ last' = [op |-> "unpauseGuild"]
  /\ UNCHANGED failedFinalize
  /\ UNCHANGED <<now, up, voice, inGuild, loaState, pausedUsers, pendingStart,
                 activeVoicePatrolSession, voicePatrolTime, voicePatrolMonthlyTime>>

\* adjustUserTime(guildId, userId, deltaMs, year?, month?)
adjustUserTime ==
  \E u \in Users, d \in AdjustDeltas,
     target \in {<<getUTCFullYear(now), getUTCMonth(now) + 1>>, <<2024, 1>>} :
    /\ Budget
    /\ up
    /\ voicePatrolTime[u] + d <= MaxTotal
    /\ voicePatrolMonthlyTime[u][target] + d <= MaxTotal
    /\ voicePatrolTime' = [voicePatrolTime EXCEPT ![u] = Max(0, @ + d)]
    /\ voicePatrolMonthlyTime' =
         [voicePatrolMonthlyTime EXCEPT ![u][target] = Max(0, @ + d)]
    /\ last' = [op |-> "adjust", user |-> u]
    /\ UNCHANGED <<now, up, voice, inGuild, loaState, tracked, pausedUsers, pausedGuilds,
                   pendingStart, activeVoicePatrolSession>>

\* two exit signals for the same member: the second finalize runs while the first
\* one awaits after its synchronous head ("nested"), or after it has returned
DuplicateExit ==
  \E u \in Users, order \in {"nested", "after"} :
    /\ Budget
    /\ up
    /\ voice[u] \in Channels
    /\ voice' = [voice EXCEPT ![u] = Out]
    /\ LET second == stopTrackingAndPersist(takeSession(Ledger, u), u)
           resumed == [second EXCEPT !.tracked[u] = tracked[u]]
       IN IF order = "nested"
          THEN SetLedger(stopTrackingAndPersist(resumed, u))
          ELSE SetLedger(stopTrackingAndPersist(stopTrackingAndPersist(Ledger, u), u))
    /\ last' = [StopRecord(u) EXCEPT !.op = "duplicateExit"]
    /\ UNCHANGED <<now, up, inGuild, loaState, pausedUsers, pausedGuilds, pendingStart>>

\* the reconciliation of init while the exit signal of member u is handled: the
\* exit handler finalizes the loaded session before the scan ("exitFirst"), or the
\* scan still lists the member and the exit handler runs after it
StartupRacingExit ==
  \E u \in inGuild, order \in {"exitFirst", "scanFirst"} :
    /\ Budget
    /\ ~up
    /\ up' = TRUE
    /\ voice[u] \in Channels
    /\ voice' = [voice EXCEPT ![u] = Out]
    /\ LET loaded == [Ledger EXCEPT !.tracked = activeVoicePatrolSession]
       IN IF order = "exitFirst"
          THEN SetLedger(resumeActiveForGuild(stopTrackingAndPersist(loaded, u),
                                              Users \ {u}))
          ELSE SetLedger(stopTrackingAndPersist(resumeActiveForGuild(loaded, Users), u))
    /\ last' = [op |-> "startupExit", user |-> u, order |-> order,
                loaded |-> activeVoicePatrolSession,
                totalBefore |-> voicePatrolTime,
                monthlyBefore |-> voicePatrolMonthlyTime]
    /\ UNCHANGED <<now, inGuild, loaState, pausedUsers, pausedGuilds, pendingStart>>

\* the exits and restarts of a session, duplicate and racing signals included
NextFinalize ==
  \/ Tick
  \/ VoiceJoin
  \/ checkLOAAndStartTracking
  \/ VoiceLeave
  \/ DuplicateExit
  \/ Crash
  \/ DownVoice
  \/ Startup
  \/ StartupRacingExit

SpecFinalize == Init /\ [][NextFinalize]_vars

\* the operations that write the ledger: sessions that start and finalize, and the
\* administrative reset and adjustment
NextLedger ==
  \/ Tick
  \/ VoiceJoin
  \/ checkLOAAndStartTracking
  \/ VoiceLeave
  \/ Reset
  \/ adjustUserTime

SpecLedger == Init /\ [][NextLedger]_vars

\* ----------------------------------------------- finalize with rejected writes
MaxMonthlyWrites == 1       \* monthly upserts that succeed before the rejected one

\* The writes of one credited finalize that reject: the deletion of the crash-recovery
\* record (caught and logged by its .catch), and the first rejected write of the
\* increment: the upsert of the total ("total"), or a monthly upsert after `written`
\* monthly upserts went through ("monthly").
WriteFaults == [deleteFails : BOOLEAN, at : {"total", "monthly"}, written : 0 .. MaxMonthlyWrites]

\* persistMonthly whose upsert number written + 1 rejects: the rows written so far,
\* and whether the rejected upsert was reached
RECURSIVE persistMonthlyFailing(_, _, _, _, _)
persistMonthlyFailing(rows, userId, curStart, endMs, written) ==
  IF curStart < endMs
  THEN LET y == getUTCFullYear(curStart)
           m == getUTCMonth(curStart)
           nextMonthStart == DateUTC(IF m = 11 THEN y + 1 ELSE y, (m + 1) % 12)
           segmentEndMs == Min(endMs, nextMonthStart)
           segDelta == segmentEndMs - curStart
       IN IF segDelta > 0 /\ written = 0
          THEN [rows |-> rows, threw |-> TRUE, months |-> {}]
          ELSE IF segDelta > 0
          THEN LET rest == persistMonthlyFailing([rows EXCEPT ![userId][<<y, m + 1>>] = @ + segDelta], userId, segmentEndMs, endMs, written - 1)
               IN [rest EXCEPT !.months = @ \cup {<<y, m + 1>>}]
          ELSE persistMonthlyFailing(rows, userId, segmentEndMs, endMs, written)
  ELSE [rows |-> rows, threw |-> FALSE, months |-> {}]

\* where the rejections of a finalize end up: the deletion's is caught and logged
\* inside the finalize, the increment's leaves it
finalizeErrors(fault) ==
  [logged |-> IF fault.deleteFails THEN {"delete"} ELSE {}, thrown |-> {fault.at}]

\* stopTrackingAndPersist on its credited path when a write of the increment rejects:
\* the session left the map before the first await, the record deletion is attempted
\* first, and the rejection ends the finalize at the write it hits
stopTrackingAndPersistFailing(L, userId, fault) ==
  LET t == L.tracked[userId]
      removed == takeSession(L, userId)
      deleted == IF fault.deleteFails THEN removed
                 ELSE [removed EXCEPT !.active[userId] = NoSession]
  IN IF fault.at = "total" THEN deleted
     ELSE [deleted EXCEPT !.total[userId] = @ + (now - t.startedAt),
                          !.monthly = persistMonthlyFailing(@, userId, t.startedAt, now, fault.written).rows]

\* handleVoiceStateUpdate, wasTracked && !nowTracked, with a rejected ledger write:
\* the rejection leaves stopTrackingAndPersist and is logged by the handler's catch
VoiceLeaveFailing ==
  \E u \in Users, fault \in WriteFaults :
    /\ Spend
    /\ up
    /\ voice[u] \in Channels
    /\ stopOutcome(Ledger, u) = "credited"
    /\ fault.at = "total" => fault.written = 0
    /\ \E pm \in {persistMonthlyFailing(voicePatrolMonthlyTime, u, tracked[u].startedAt, now, fault.written)} :
         /\ fault.at = "monthly" => pm.threw
         /\ failedFinalize' = [failedFinalize EXCEPT ![u] =
              [startedAt |-> tracked[u].startedAt, endedAt |-> now,
               total |-> fault.at = "monthly",
               months |-> IF fault.at = "monthly" THEN pm.months ELSE {}]]
    /\ voice' = [voice EXCEPT ![u] = Out]
    /\ SetLedger(stopTrackingAndPersistFailing(Ledger, u, fault))
    /\ last' = [op |-> "stopFailed", user |-> u, session |-> tracked[u], fault |-> fault,
                thrown |-> finalizeErrors(fault).thrown]
    /\ UNCHANGED <<now, up, inGuild, loaState, pausedUsers, pausedGuilds, pendingStart>>

\* sessions, restarts, and finalizes whose ledger writes can reject
NextPersist ==
  \/ Tick
  \/ VoiceJoin
  \/ checkLOAAndStartTracking
  \/ VoiceLeave
  \/ VoiceLeaveFailing
  \/ Crash
  \/ DownVoice
  \/ Startup

SpecPersist == Init /\ [][NextPersist]_vars

Next ==
  \/ Tick
  \/ SetLOA
  \/ VoiceJoin
  \/ checkLOAAndStartTracking
  \/ VoiceMove
  \/ VoiceLeave
  \/ LeaveGuild
  \/ Crash
  \/ DownVoice
  \/ Startup
  \/ Reset
  \/ pauseUser
  \/ unpauseUser
  \/ pauseGuild
  \/ unpauseGuild

Spec == Init /\ [][Next]_vars

\* ================================================== properties of the tracker
RECURSIVE SumOver(_, _)
SumOver(f, S) ==
  IF S = {} THEN 0
  ELSE LET k == CHOOSE x \in S : TRUE
       IN f[k] + SumOver(f, S \ {k})

\* The finalizations the last step performed: a zone exit finalizes one user, a
\* startup finalizes every loaded session whose (resolvable) user is not in a zone.
Finalized ==
  IF last.op = "stop"
  THEN {[user |-> last.user, session |-> last.session, paused |-> last.paused,
         loa |-> last.loa, totalBefore |-> last.totalBefore,
         monthlyBefore |-> last.monthlyBefore]}
  ELSE IF last.op = "startup"
  THEN {[user |-> u, session |-> last.loaded[u], paused |-> FALSE,
         loa |-> loaState[u], totalBefore |-> last.totalBefore[u],
         monthlyBefore |-> last.monthlyBefore[u]]
          : u \in {x \in inGuild : voice[x] = Out}}
  ELSE {}

Delta(f) == now - f.session.startedAt
Suspended(f) == f.paused \/ f.loa = "active"
\* d seconds are at least 3000 ms
AtLeast3000ms(d) == d >= 3000 \div MsPerSecond

\* C1: a session finalized after at least 3000 ms while its user is neither paused
\* nor on leave adds exactly delta to the all-time total, and the monthly buckets
\* of the user grow by delta in sum.
C1_FinalizeCredits ==
  \A f \in Finalized :
    (f.session # NoSession /\ AtLeast3000ms(Delta(f))
       /\ ~f.paused /\ f.loa = "none")
    => /\ voicePatrolTime[f.user] = f.totalBefore + Delta(f)
       /\ SumOver(voicePatrolMonthlyTime[f.user], MonthKeys)
            = SumOver(f.monthlyBefore, MonthKeys) + Delta(f)

\* a credited zone exit of a session that began in January and ended in February
C1_Witness ==
  /\ last.op = "stop"
  /\ last.session # NoSession
  /\ ~last.paused /\ last.loa = "none"
  /\ last.session.startedAt < DateUTC(2024, 1)
  /\ now > DateUTC(2024, 1)
  /\ last.totalBefore > 0

\* C6: a start for a user who already has an open session changes nothing of that
\* session: both in the startup scan over loaded sessions and when a pending
\* zone-enter completes.
C6_StartIdempotent ==
  /\ last.op = "startup" =>
       \A u \in Users :
         (last.loaded[u] # NoSession /\ voice[u] \in Channels)
           => tracked[u] = last.loaded[u]
  /\ (last.op = "start" /\ last.session # NoSession) =>
       tracked[last.user] = last.session

\* the startup scan meets an occupant whose loaded session began earlier, elsewhere
C6_Witness ==
  /\ last.op = "startup"
  /\ \E u \in Users :
       /\ last.loaded[u] # NoSession
       /\ voice[u] \in Channels
       /\ voice[u] # last.loaded[u].channelId
       /\ last.loaded[u].startedAt < now

\* C7: finalizing the session of a suspended user (paused, guild paused or on
\* leave) changes neither the total nor any monthly bucket, and removes the session.
C7_SuspendedNoCredit ==
  \A f \in Finalized :
    (f.session # NoSession /\ Suspended(f))
    => /\ voicePatrolTime[f.user] = f.totalBefore
       /\ voicePatrolMonthlyTime[f.user] = f.monthlyBefore
       /\ tracked[f.user] = NoSession

\* a manually paused user with a long open session leaves the zone
C7_Witness ==
  \E f \in Finalized :
    /\ f.session # NoSession
    /\ f.paused
    /\ AtLeast3000ms(Delta(f))

\* C8: finalizing a session shorter than 3000 ms changes neither the total nor any
\* monthly bucket of its user.
C8_ShortNoCredit ==
  \A f \in Finalized :
    (f.session # NoSession /\ ~AtLeast3000ms(Delta(f)))
    => /\ voicePatrolTime[f.user] = f.totalBefore
       /\ voicePatrolMonthlyTime[f.user] = f.monthlyBefore

\* an unsuspended user leaves two seconds after the session began
C8_Witness ==
  \E f \in Finalized :
    /\ f.session # NoSession
    /\ ~Suspended(f)
    /\ Delta(f) > 0
    /\ ~AtLeast3000ms(Delta(f))

\* C9: after a reset the total is 0, an open session is kept with startedAt moved to
\* the reset time, and getUserTotal asked d seconds later returns d for an
\* unsuspended open session and 0 otherwise (never negative, never the time the
\* session had run before the reset).
C9_ResetRebases ==
  last.op = "reset" =>
    \A u \in last.users :
      /\ voicePatrolTime[u] = 0
      /\ tracked[u] = IF last.sessions[u] = NoSession THEN NoSession
                      ELSE [last.sessions[u] EXCEPT !.startedAt = now]
      /\ \A d \in 0 .. MaxQueryDelay :
           /\ getUserTotalAt(u, now + d) >= 0
           /\ getUserTotalAt(u, now + d) =
                IF tracked[u] # NoSession /\ ~isUserPausedOrOnLOA(u) THEN d ELSE 0

\* a reset of an unsuspended user whose session had already run for a while
C9_Witness ==
  /\ last.op = "reset"
  /\ \E u \in last.users :
       /\ last.sessions[u] # NoSession
       /\ last.sessions[u].startedAt < now
       /\ ~isUserPausedOrOnLOA(u)
       /\ last.users = {u}

\* C12: pauseUser answers false and leaves the paused users as they were when the
\* user has an open session, and otherwise answers true with the user paused;
\* pauseGuild answers false and leaves the guild flag as it was when any user has an
\* open session, and otherwise answers true with the guild paused.
C12_PauseRefusedWhileTracked ==
  /\ last.op = "pauseUser" =>
        IF tracked[last.user] # NoSession
        THEN ~last.result /\ pausedUsers = last.before
        ELSE last.result /\ pausedUsers = last.before \cup {last.user}
  /\ last.op = "pauseGuild" =>
        IF \E u \in Users : tracked[u] # NoSession
        THEN ~last.result /\ pausedGuilds = last.before
        ELSE last.result /\ pausedGuilds

\* a pause of a user with an open session was refused
C12_Witness ==
  /\ last.op = "pauseUser"
  /\ tracked[last.user] # NoSession
  /\ ~last.result
  /\ last.user \notin pausedUsers

\* a pause of the guild was refused because of one open session
C12_WitnessGuild ==
  /\ last.op = "pauseGuild"
  /\ ~last.result
  /\ ~pausedGuilds
  /\ Cardinality({u \in Users : tracked[u] # NoSession}) = 1

\* both pauses were granted with nobody tracked
C12_WitnessGranted ==
  /\ last.op = "pauseGuild"
  /\ last.result
  /\ pausedGuilds
  /\ pausedUsers # {}

\* C13: a move of a user with an open session between two tracked channels changes
\* the channel of the session, and of its crash-recovery record, and nothing else:
\* startedAt stays, the session stays open, and the total and every monthly bucket
\* of the user stay as they were.
C13_MoveKeepsClock ==
  (last.op = "move" /\ last.session # NoSession) =>
    /\ tracked[last.user] = [last.session EXCEPT !.channelId = voice[last.user]]
    /\ activeVoicePatrolSession[last.user] =
         TrackedUser(voice[last.user],
                     IF last.record # NoSession THEN last.record.startedAt
                     ELSE last.session.startedAt)
    /\ voicePatrolTime[last.user] = last.total
    /\ voicePatrolMonthlyTime[last.user] = last.monthly

\* a session that had been running for a while was moved
C13_Witness ==
  /\ last.op = "move"
  /\ last.session # NoSession
  /\ last.session.startedAt < now
  /\ tracked[last.user].startedAt = last.session.startedAt
  /\ tracked[last.user].channelId # last.session.channelId

\* the credit a finalize at startup gives the loaded session r of user u
StartupCredit(u, r) ==
  IF loaState[u] = "active" \/ isUserPaused(u) \/ ~AtLeast3000ms(now - r.startedAt)
  THEN 0 ELSE now - r.startedAt

\* C14: when the startup reconciliation is done, the open sessions are exactly the
\* users present in the tracked channels; a present user without crash-recovery
\* record has a session started at the time of the reconciliation; and the record
\* of every user who is not present is gone, finalized (credited as a finalize
\* credits) when the member resolves and deleted without credit when not.
C14_Reconciled ==
  last.op = "startup" =>
    \A u \in Users :
      /\ tracked[u] # NoSession <=> voice[u] \in Channels
      /\ (voice[u] \in Channels /\ last.loaded[u] = NoSession) =>
            tracked[u] = TrackedUser(voice[u], now)
      /\ (voice[u] \notin Channels /\ last.loaded[u] # NoSession) =>
            /\ activeVoicePatrolSession[u] = NoSession
            /\ voicePatrolTime[u] = last.totalBefore[u]
                  + (IF u \in inGuild THEN StartupCredit(u, last.loaded[u]) ELSE 0)
            /\ SumOver(voicePatrolMonthlyTime[u], MonthKeys)
                  = SumOver(last.monthlyBefore[u], MonthKeys)
                    + (IF u \in inGuild THEN StartupCredit(u, last.loaded[u]) ELSE 0)

\* C15: a leave lookup that fails counts as "not on leave": the zone-enter of a
\* user who is not manually paused still ends with an open session of the user,
\* and a finalize still credits the session as it credits one of a user without
\* leave.
C15_LookupFailureFailsOpen ==
  /\ (last.op = "start" /\ last.loa = "error") => tracked[last.user] # NoSession
  /\ \A f \in Finalized :
        (f.session # NoSession /\ AtLeast3000ms(Delta(f))
           /\ ~f.paused /\ f.loa = "error")
        => /\ voicePatrolTime[f.user] = f.totalBefore + Delta(f)
           /\ SumOver(voicePatrolMonthlyTime[f.user], MonthKeys)
                = SumOver(f.monthlyBefore, MonthKeys) + Delta(f)

\* C25: after a finalize of an open session, whether it was credited, discarded as
\* shorter than 3000 ms or discarded for a suspension, no crash-recovery record of
\* the user is left.
C25_FinalizeRemovesRecord ==
  \A f \in Finalized :
    f.session # NoSession => activeVoicePatrolSession[f.user] = NoSession

\* C26: every open in-memory session has a crash-recovery record with the same
\* startedAt.
C26_RecordMatchesSession ==
  \A u \in Users :
    tracked[u] # NoSession =>
      /\ activeVoicePatrolSession[u] # NoSession
      /\ activeVoicePatrolSession[u].startedAt = tracked[u].startedAt

\* C27: once the handlers of an enter and of the exit that followed it have both
\* completed (the user is in no tracked channel and no start is pending), the user
\* has no open session and no crash-recovery record.
C27_EnterExitSerialized ==
  \A u \in Users :
    (up /\ voice[u] = Out /\ pendingStart[u] = <<>>) =>
      /\ tracked[u] = NoSession
      /\ activeVoicePatrolSession[u] = NoSession

C28_WitnessStartup ==
  /\ last.op = "startupExit"
  /\ last.loaded[last.user] # NoSession
  /\ AtLeast3000ms(now - last.loaded[last.user].startedAt)
  /\ voicePatrolTime[last.user]
       = last.totalBefore[last.user] + (now - last.loaded[last.user].startedAt)

\* C29: no user is at the same time manually paused (individually or through the
\* guild) and the owner of an open session.
C29_NeverPausedMidSession ==
  \A u \in Users : ~(isUserPaused(u) /\ tracked[u] # NoSession)

\* an enter of a manually paused user starts nothing and notifies nobody, and a
\* start opens a session only when the lookup found no leave
StartOnlyIfActive ==
  /\ (last.op = "join" /\ last.paused) =>
       /\ pendingStart[last.user] = last.pending
       /\ last.notices = {}
  /\ (last.op = "start" /\ tracked[last.user] # last.session) => last.loa = "none"
  /\ (last.op = "start" /\ last.loa # "none") => tracked[last.user] = last.session
  /\ (last.op = "start" /\ last.loa # "active") => last.notices = {}

C30_WitnessQuiet ==
  /\ last.op = "start"
  /\ last.loa = "active"
  /\ last.notificationsPaused
  /\ last.notices = {}
  /\ tracked[last.user] = NoSession

\* a manually paused user entered a tracked channel
C30_WitnessPaused ==
  /\ last.op = "join"
  /\ last.paused
  /\ voice[last.user] \in Channels
  /\ tracked[last.user] = NoSession

\* ============================================= the month split, input by input
\* A finalize taken from every pair of these instants: u1 has a session that began
\* at one of them and leaves the zone at a later one.
SplitInstants ==
  { Instant(2024, 0, 1, 0, 0, 0),    Instant(2024, 0, 31, 23, 0, 0),
    Instant(2024, 0, 31, 23, 59, 59), Instant(2024, 1, 1, 0, 0, 0),
    Instant(2024, 1, 1, 1, 30, 0),   Instant(2024, 1, 29, 23, 59, 58),
    Instant(2024, 2, 1, 0, 0, 3),    Instant(2024, 5, 15, 12, 0, 0),
    Instant(2024, 10, 30, 23, 59, 57), Instant(2024, 11, 31, 23, 59, 59),
    Instant(2025, 0, 1, 0, 0, 0),    Instant(2025, 0, 1, 0, 0, 2),
    Instant(2025, 1, 28, 23, 0, 0),  Instant(2025, 2, 1, 0, 0, 0),
    Instant(2025, 11, 31, 23, 59, 59) }

InitMonthly ==
  /\ now \in SplitInstants
  /\ up = TRUE
  /\ voice = [u \in Users |-> IF u = "u1" THEN "c1" ELSE Out]
  /\ inGuild = Users
  /\ loaState = [u \in Users |-> "none"]
  /\ \E t \in SplitInstants :
       /\ t <= now
       /\ tracked = [u \in Users |-> IF u = "u1" THEN TrackedUser("c1", t) ELSE NoSession]
  /\ pausedUsers = {}
  /\ pausedGuilds = FALSE
  /\ pendingStart = [u \in Users |-> <<>>]
  /\ activeVoicePatrolSession = tracked
  /\ voicePatrolTime = [u \in Users |-> IF u = "u1" THEN EarlierPatrol ELSE 0]
  /\ voicePatrolMonthlyTime =
       [u \in Users |-> [k \in MonthKeys |->
          IF u = "u1" /\ k = <<2024, 1>> THEN EarlierPatrol ELSE 0]]
  /\ EscalationIdle
  /\ steps = 0
  /\ failedFinalize = [u \in Users |-> NoFailure]
  /\ guildSettings = SettingsOfTheRun
  /\ audit = NoAudit
  /\ sweepRuns = NoSweepRuns
  /\ last = [op |-> "init"]

NextMonthly == VoiceLeave

SpecMonthly == InitMonthly /\ [][NextMonthly]_vars

\* the part of [a, b] that lies inside calendar month k = <<year, month 1..12>>
MonthStart(k) == DateUTC(k[1], k[2] - 1)
MonthEnd(k) == DateUTC(IF k[2] = 12 THEN k[1] + 1 ELSE k[1], k[2] % 12)
Overlap(k, a, b) == Max(0, Min(b, MonthEnd(k)) - Max(a, MonthStart(k)))

\* C2: a credited finalize of [startedAt, now] adds to each month's bucket exactly
\* the part of the interval inside that month; 2024-01-31T23:00:00Z to
\* 2024-02-01T01:30:00Z adds 3,600,000 ms to January and 5,400,000 ms to February.
C2_MonthSplit ==
  \A f \in Finalized :
    (f.session # NoSession /\ ~Suspended(f) /\ AtLeast3000ms(Delta(f)))
    => /\ \A k \in MonthKeys :
            voicePatrolMonthlyTime[f.user][k] - f.monthlyBefore[k]
              = Overlap(k, f.session.startedAt, now)
       /\ (f.session.startedAt = Instant(2024, 0, 31, 23, 0, 0)
             /\ now = Instant(2024, 1, 1, 1, 30, 0))
          => /\ (voicePatrolMonthlyTime[f.user][<<2024, 1>>] - f.monthlyBefore[<<2024, 1>>])
                  * MsPerSecond = 3600000
             /\ (voicePatrolMonthlyTime[f.user][<<2024, 2>>] - f.monthlyBefore[<<2024, 2>>])
                  * MsPerSecond = 5400000

\* the session of the example has been finalized
C2_Witness ==
  /\ last.op = "stop"
  /\ last.session # NoSession
  /\ last.session.startedAt = Instant(2024, 0, 31, 23, 0, 0)
  /\ now = Instant(2024, 1, 1, 1, 30, 0)
  /\ voicePatrolMonthlyTime[last.user][<<2024, 2>>] > 0

\* a finalized session that spans more than two calendar months and a year's end
C2_WitnessLong ==
  /\ last.op = "stop"
  /\ last.session # NoSession
  /\ last.session.startedAt < DateUTC(2024, 11)
  /\ now > DateUTC(2025, 1)

\* ========================================================== duration strings
\* A string is a sequence of one-character strings.  parseDurationToMs returns
\* seconds here (the code's milliseconds divided by MsPerSecond), Null for null.
Null == -1

Digits == <<"0", "1", "2", "3", "4", "5", "6", "7", "8", "9">>
UpperCase == <<"A", "B", "C", "D", "E", "F", "G", "H", "I", "J", "K", "L", "M",
               "N", "O", "P", "Q", "R", "S", "T", "U", "V", "W", "X", "Y", "Z">>
LowerCase == <<"a", "b", "c", "d", "e", "f", "g", "h", "i", "j", "k", "l", "m",
               "n", "o", "p", "q", "r", "s", "t", "u", "v", "w", "x", "y", "z">>

IsDigit(c) == \E i \in 1 .. 10 : Digits[i] = c
DigitValue(c) == (CHOOSE i \in 1 .. 10 : Digits[i] = c) - 1
IsSpace(c) == c \in {" ", "\t", "\n"}

RECURSIVE trimStart(_)
trimStart(s) == IF s # <<>> /\ IsSpace(Head(s)) THEN trimStart(Tail(s)) ELSE s

RECURSIVE trimEnd(_)
trimEnd(s) ==
  IF s # <<>> /\ IsSpace(s[Len(s)]) THEN trimEnd(SubSeq(s, 1, Len(s) - 1)) ELSE s

trim(s) == trimEnd(trimStart(s))

toLowerCase(s) ==
  [i \in 1 .. Len(s) |->
     IF \E k \in 1 .. 26 : UpperCase[k] = s[i]
     THEN LowerCase[CHOOSE k \in 1 .. 26 : UpperCase[k] = s[i]]
     ELSE s[i]]

\* the length of the longest prefix of s made of digits: (\d+) is greedy
RECURSIVE digitPrefix(_)
digitPrefix(s) == IF s # <<>> /\ IsDigit(Head(s)) THEN 1 + digitPrefix(Tail(s)) ELSE 0

\* parseInt(digits, 10)
RECURSIVE parseInt(_)
parseInt(ds) ==
  IF ds = <<>> THEN 0
  ELSE parseInt(SubSeq(ds, 1, Len(ds) - 1)) * 10 + DigitValue(ds[Len(ds)])

\* the unit alternatives of the four regular expressions, and their multipliers
patterns ==
  << [unit |-> {<<"w", "e", "e", "k", "s">>, <<"w", "e", "e", "k">>, <<"w">>},
      multiplier |-> 7 * 24 * 60 * 60],
     [unit |-> {<<"d", "a", "y", "s">>, <<"d", "a", "y">>, <<"d">>},
      multiplier |-> 24 * 60 * 60],
     [unit |-> {<<"m", "o", "n", "t", "h", "s">>, <<"m", "o", "n", "t", "h">>, <<"m", "o">>},
      multiplier |-> 30 * 24 * 60 * 60],
     [unit |-> {<<"y", "e", "a", "r", "s">>, <<"y", "e", "a", "r">>, <<"y">>},
      multiplier |-> 365 * 24 * 60 * 60] >>

\* variant: the regular expressions are not anchored at the end of the string
match_noAnchor(normalized, unit) ==
  LET n == digitPrefix(normalized)
      rest == trimStart(SubSeq(normalized, n + 1, Len(normalized)))
  IN IF n >= 1 /\ \E k \in 1 .. Len(rest) : SubSeq(rest, 1, k) \in unit
     THEN SubSeq(normalized, 1, n) ELSE <<>>

\* normalized.match(/^(\d+)\s*(?:unit)$/): the digits matched, or <<>> for no match
match(normalized, unit) ==
  LET n == digitPrefix(normalized)
      rest == trimStart(SubSeq(normalized, n + 1, Len(normalized)))
  IN IF n >= 1 /\ rest \in unit THEN SubSeq(normalized, 1, n) ELSE <<>>

parseDurationToMs(durationString) ==
  LET normalized == toLowerCase(trim(durationString))
      hits == {i \in 1 .. Len(patterns) : match(normalized, patterns[i].unit) # <<>>}
  IN IF hits = {} THEN Null
     ELSE LET i == CHOOSE x \in hits : \A y \in hits : x <= y
              value == parseInt(match(normalized, patterns[i].unit))
          IN IF value <= 0 THEN Null ELSE value * patterns[i].multiplier

isValidDuration(durationString) == parseDurationToMs(durationString) # Null

\* JavaScript: !x for a number or null
Falsy(x) == x = Null \/ x = 0

\* ==================================================== configuration validation
\* A RoleTrackingConfig is a record; an optional field that is undefined or null
\* (conditions, patrolTimeThresholdHours) is absent from the record.
Has(roleConfig, field) == field \in DOMAIN roleConfig

includes(array, x) == \E i \in 1 .. Len(array) : array[i] = x

\* one entry of ValidationResult.errors: the message without its interpolations,
\* and the array position it names (0 when it names none)
Error(message, position) == [message |-> message, at |-> position]

RECURSIVE conditionErrors(_, _)
conditionErrors(conditions, i) ==
  IF i > Len(conditions) THEN <<>>
  ELSE (IF conditions[i] \notin {"PATROL", "TIME"}
        THEN <<Error("Invalid condition", i - 1)>> ELSE <<>>)
       \o conditionErrors(conditions, i + 1)

\* the errors pushed by the loop over roleConfig.warnings, from position i on
RECURSIVE warningErrors(_, _, _)
warningErrors(warnings, deadlineMs, i) ==
  IF i > Len(warnings) THEN <<>>
  ELSE LET warning == warnings[i]
           offsetMs == parseDurationToMs(warning.offset)
       IN (IF ~isValidDuration(warning.offset)
           THEN <<Error("Invalid warning offset", i - 1)>>
           ELSE IF ~Falsy(offsetMs) /\ ~Falsy(deadlineMs) /\ offsetMs > deadlineMs
                THEN <<Error("Warning offset exceeds deadlineDuration", i - 1)>>
                ELSE <<>>)
          \o (IF warning.index # i - 1
              THEN <<Error("Warning index does not match", i - 1)>> ELSE <<>>)
          \o warningErrors(warnings, deadlineMs, i + 1)

\* the offsets the loop collects in warningOffsets
RECURSIVE collectOffsets(_, _)
collectOffsets(warnings, i) ==
  IF i > Len(warnings) THEN <<>>
  ELSE (IF isValidDuration(warnings[i].offset)
           /\ ~Falsy(parseDurationToMs(warnings[i].offset))
        THEN <<parseDurationToMs(warnings[i].offset)>> ELSE <<>>)
       \o collectOffsets(warnings, i + 1)

RECURSIVE ascendingErrors(_, _)
ascendingErrors(warningOffsets, i) ==
  IF i > Len(warningOffsets) THEN <<>>
  ELSE (IF warningOffsets[i] < warningOffsets[i - 1]
        THEN <<Error("Warning offsets must be in ascending order", i - 1)>> ELSE <<>>)
       \o ascendingErrors(warningOffsets, i + 1)

\* variant: the PATROL condition is accepted without a threshold
validateConditions_noThresholdCheck(roleConfig) ==
  IF Has(roleConfig, "conditions") /\ Len(roleConfig.conditions) > 0
  THEN conditionErrors(roleConfig.conditions, 1)
  ELSE <<>>

\* the errors pushed by the block on roleConfig.conditions
validateConditions(roleConfig) ==
  IF Has(roleConfig, "conditions") /\ Len(roleConfig.conditions) > 0
  THEN conditionErrors(roleConfig.conditions, 1)
       \o (IF includes(roleConfig.conditions, "PATROL")
              /\ ~Has(roleConfig, "patrolTimeThresholdHours")
           THEN <<Error("patrolTimeThresholdHours must be set when using PATROL condition", 0)>>
           ELSE <<>>)
  ELSE <<>>

validateRoleTrackingConfig(roleConfig) ==
  LET deadlineMs == parseDurationToMs(roleConfig.deadlineDuration)
      staffPingMs == parseDurationToMs(roleConfig.staffPingOffset)
      errors ==
        validateConditions(roleConfig)
        \o (IF ~isValidDuration(roleConfig.deadlineDuration)
            THEN <<Error("Invalid deadlineDuration", 0)>> ELSE <<>>)
        \o (IF Falsy(deadlineMs)
            THEN <<Error("Could not parse deadlineDuration", 0)>> ELSE <<>>)
        \o (IF ~isValidDuration(roleConfig.staffPingOffset)
            THEN <<Error("Invalid staffPingOffset", 0)>> ELSE <<>>)
        \o (IF Falsy(staffPingMs)
            THEN <<Error("Could not parse staffPingOffset", 0)>> ELSE <<>>)
        \o (IF Has(roleConfig, "patrolTimeThresholdHours")
               /\ roleConfig.patrolTimeThresholdHours < 0
            THEN <<Error("patrolTimeThresholdHours must be a positive number", 0)>>
            ELSE <<>>)
        \o warningErrors(roleConfig.warnings, deadlineMs, 1)
        \o ascendingErrors(collectOffsets(roleConfig.warnings, 1), 2)
        \o (IF ~Falsy(deadlineMs) /\ ~Falsy(staffPingMs) /\ staffPingMs > deadlineMs
            THEN <<Error("staffPingOffset exceeds deadlineDuration", 0)>> ELSE <<>>)
  IN [valid |-> Len(errors) = 0, errors |-> errors]

\* --------------------------------------------- validation, input by input
\* Duration strings an administrator may type, each with the number of days it
\* denotes under the documented formats (0: it denotes no duration).
DurationTexts ==
  { [text |-> <<"2", " ", "w", "e", "e", "k", "s">>, days |-> 14],
    [text |-> <<"1", " ", "w", "e", "e", "k">>, days |-> 7],
    [text |-> <<"1", "0", " ", "d", "a", "y", "s">>, days |-> 10],
    [text |-> <<"1", "4", "d">>, days |-> 14],
    [text |-> <<" ", "3", " ", "W", "e", "e", "k", "s", " ">>, days |-> 21],
    [text |-> <<"1", "m", "o">>, days |-> 30],
    [text |-> <<"1", " ", "m", "o", "n", "t", "h">>, days |-> 30],
    [text |-> <<"1", " ", "y", "e", "a", "r">>, days |-> 365],
    [text |-> <<"0", " ", "w", "e", "e", "k", "s">>, days |-> 0],
    [text |-> <<"2", " ", "w", "e", "e", "k", "s", "!">>, days |-> 0],
    [text |-> <<"1", ".", "5", " ", "w", "e", "e", "k", "s">>, days |-> 0],
    [text |-> <<"s", "o", "o", "n">>, days |-> 0],
    [text |-> <<"w">>, days |-> 0],
    [text |-> <<>>, days |-> 0] }

Text(days) == (CHOOSE d \in DurationTexts : d.days = days).text
Denotes(text) == (CHOOSE d \in DurationTexts : d.text = text).days

DeadlineTexts ==
  {d.text : d \in {x \in DurationTexts : x.days \in {0, 14, 21, 30, 365}}}
OffsetTexts == {d.text : d \in {x \in DurationTexts : x.days \in {0, 7, 10, 14, 30}}}
StaffPingTexts ==
  { <<"2", " ", "w", "e", "e", "k", "s">>, <<"1", " ", "m", "o", "n", "t", "h">>,
    <<"s", "o", "o", "n">> }

WarningLists ==
  {<<>>}
  \cup {<<Warning(i, o)>> : i \in {0, 1}, o \in OffsetTexts}
  \cup {<<Warning(0, o1), Warning(1, o2)>> :
          o1 \in {<<"1", " ", "w", "e", "e", "k">>, <<"1", "0", " ", "d", "a", "y", "s">>},
          o2 \in {<<"1", " ", "w", "e", "e", "k">>, <<"1", "0", " ", "d", "a", "y", "s">>,
                  <<"1", " ", "m", "o", "n", "t", "h">>}}

ConditionLists ==
  {<<>>, <<"TIME">>, <<"PATROL">>, <<"PATROL", "TIME">>, <<"VOICE">>}

ThresholdHours == {-2, 0, 5}

\* the configurations handed to the validator
ConfigCandidates ==
  LET base == [deadlineDuration : DeadlineTexts, warnings : WarningLists,
               staffPingOffset : StaffPingTexts]
      withConditions ==
        base \cup {[deadlineDuration |-> b.deadlineDuration, warnings |-> b.warnings,
                    staffPingOffset |-> b.staffPingOffset, conditions |-> c] :
                     b \in base, c \in ConditionLists}
  IN withConditions
     \cup {[deadlineDuration |-> b.deadlineDuration, warnings |-> b.warnings,
            staffPingOffset |-> b.staffPingOffset, conditions |-> b.conditions,
            patrolTimeThresholdHours |-> h] :
             b \in {x \in withConditions : Has(x, "conditions")}, h \in ThresholdHours}

\* the tracker at rest: nobody connected, empty ledger
TrackerIdle ==
  /\ now = StartOfRun
  /\ up = TRUE
  /\ voice = [u \in Users |-> Out]
  /\ inGuild = Users
  /\ loaState = [u \in Users |-> "none"]
  /\ tracked = [u \in Users |-> NoSession]
  /\ pausedUsers = {}
  /\ pausedGuilds = FALSE
  /\ pendingStart = [u \in Users |-> <<>>]
  /\ activeVoicePatrolSession = [u \in Users |-> NoSession]
  /\ voicePatrolTime = [u \in Users |-> 0]
  /\ voicePatrolMonthlyTime = [u \in Users |-> [k \in MonthKeys |-> 0]]

InitValidate ==
  /\ TrackerIdle
  /\ EscalationIdle
  /\ steps = 0
  /\ failedFinalize = [u \in Users |-> NoFailure]
  /\ guildSettings = SettingsOfTheRun
  /\ audit = NoAudit
  /\ sweepRuns = NoSweepRuns
  /\ \E c \in ConfigCandidates : last = [op |-> "config", config |-> c]

\* a command validates the configuration it is about to store
Validate ==
  /\ last.op = "config"
  /\ last' = [op |-> "validated", config |-> last.config,
              result |-> validateRoleTrackingConfig(last.config)]
  /\ UNCHANGED <<trackerVars, escVars, steps, failedFinalize, guildSettings, audit, sweepRuns>>

NextValidate == Validate

SpecValidate == InitValidate /\ [][NextValidate]_vars

Messages(result) == {result.errors[i].message : i \in 1 .. Len(result.errors)}

UnparseableDeadline(c) == Denotes(c.deadlineDuration) = 0
OffsetBeyondDeadline(c) ==
  \E i \in 1 .. Len(c.warnings) :
    /\ Denotes(c.deadlineDuration) > 0
    /\ Denotes(c.warnings[i].offset) > Denotes(c.deadlineDuration)
PatrolWithoutThreshold(c) ==
  /\ Has(c, "conditions")
  /\ includes(c.conditions, "PATROL")
  /\ ~Has(c, "patrolTimeThresholdHours")

\* C10: a configuration with an unparseable deadline, with a warning offset beyond
\* the deadline, or with PATROL and no threshold is rejected, and the errors carry
\* for each of the three cases a reason of its own, present exactly when its case is.
C10_ValidationRejects ==
  last.op = "validated" =>
    LET c == last.config
        r == last.result
    IN /\ (UnparseableDeadline(c) \/ OffsetBeyondDeadline(c) \/ PatrolWithoutThreshold(c))
            => ~r.valid
       /\ UnparseableDeadline(c) <=> "Invalid deadlineDuration" \in Messages(r)
       /\ OffsetBeyondDeadline(c)
            <=> "Warning offset exceeds deadlineDuration" \in Messages(r)
       /\ PatrolWithoutThreshold(c)
            <=> "patrolTimeThresholdHours must be set when using PATROL condition"
                  \in Messages(r)

\* a rejected configuration that has two of the cases at once, and both reasons
C10_Witness ==
  /\ last.op = "validated"
  /\ OffsetBeyondDeadline(last.config)
  /\ PatrolWithoutThreshold(last.config)
  /\ ~last.result.valid
  /\ Len(last.result.errors) = 2

\* a configuration rejected for its deadline alone
C10_WitnessDeadline ==
  /\ last.op = "validated"
  /\ UnparseableDeadline(last.config)
  /\ Len(last.result.errors) = 2
  /\ last.result.errors[1].message = "Invalid deadlineDuration"

\* a configuration without any fault is accepted
C10_WitnessAccepted ==
  /\ last.op = "validated"
  /\ last.result.valid
  /\ Len(last.config.warnings) = 2

\* ======================================== the role-tracking settings commands
MaxCommands == 3            \* settings commands in one run

\* String(n) for the numbers getDefaultConfig interpolates
toText(n) == IF n < 10 THEN <<Digits[n + 1]>> ELSE <<Digits[(n \div 10) + 1], Digits[(n % 10) + 1]>>

\* getDefaultConfig(roleName, deadline, roleId): weekly warnings up to 35 days,
\* monthly warnings beyond; conditions empty and no threshold
getDefaultConfig(deadline) ==
  LET deadlineMs == parseDurationToMs(deadline)
      weeks == deadlineMs \div (7 * SecPerDay)
      months == deadlineMs \div (30 * SecPerDay)
  IN IF deadlineMs <= 35 * SecPerDay
     THEN [enabled |-> TRUE, conditions |-> <<>>, deadlineDuration |-> deadline,
           warnings |-> [i \in 1 .. weeks - 1 |->
              Warning(i - 1, toText(i) \o <<" ", "w", "e", "e", "k">> \o (IF i > 1 THEN <<"s">> ELSE <<>>))],
           staffPingOffset |-> toText(weeks) \o <<" ", "w", "e", "e", "k", "s">>]
     ELSE [enabled |-> TRUE, conditions |-> <<>>, deadlineDuration |-> deadline,
           warnings |-> [j \in 1 .. months - 1 |->
              Warning(j - 1, toText(j + 1) \o <<" ", "m", "o", "n", "t", "h", "s">>)],
           staffPingOffset |-> toText(months) \o <<" ", "m", "o", "n", "t", "h", "s">>]

\* { ...object, [field]: value }
With(object, field, value) ==
  [f \in DOMAIN object \cup {field} |-> IF f = field THEN value ELSE object[f]]

\* [...new Set(list)]
RECURSIVE unique(_)
unique(list) ==
  IF list = <<>> THEN <<>>
  ELSE LET front == unique(SubSeq(list, 1, Len(list) - 1))
       IN IF includes(front, list[Len(list)]) THEN front ELSE Append(front, list[Len(list)])

filterValid(list) == SelectSeq(list, LAMBDA c : c \in {"PATROL", "TIME"})

\* a command that ends before it has a configuration to validate
Refused(settings, content) ==
  [settings |-> settings, candidate |-> <<>>, reply |-> [content |-> content, errors |-> <<>>]]

\* variant: the configuration is written before the validation result is looked at
storeIfValid_writesFirst(settings, role, roleConfig, initializes) ==
  [settings |-> [settings EXCEPT !.roleTrackingConfig = With(@, role, roleConfig)],
   candidate |-> <<roleConfig>>,
   reply |-> IF validateRoleTrackingConfig(roleConfig).valid
             THEN [content |-> "done", errors |-> <<>>]
             ELSE [content |-> "Configuration validation failed",
                   errors |-> validateRoleTrackingConfig(roleConfig).errors]]

\* the tail the three commands share: validate, reply with the errors and return,
\* or write the new map (add-role also sets roleTrackingInitializedAt when unset)
storeIfValid(settings, role, roleConfig, initializes) ==
  LET validation == validateRoleTrackingConfig(roleConfig)
  IN IF ~validation.valid
     THEN [settings |-> settings, candidate |-> <<roleConfig>>,
           reply |-> [content |-> "Configuration validation failed",
                      errors |-> validation.errors]]
     ELSE [settings |->
             [roleTrackingConfig |-> With(settings.roleTrackingConfig, role, roleConfig),
              roleTrackingInitializedAt |->
                IF initializes /\ settings.roleTrackingInitializedAt = Null THEN now
                ELSE settings.roleTrackingInitializedAt],
           candidate |-> <<roleConfig>>,
           reply |-> [content |-> "done", errors |-> <<>>]]

\* /settings role-tracking add-role; deadline and conditionsInput are <<>> and
\* patrolThresholdHours is <<>> when the option is not given; no channel or
\* staff-role option is given
addRole(settings, role, deadline, conditionsInput, patrolThresholdHours) ==
  LET currentConfig == settings.roleTrackingConfig
      isUpdating == role \in DOMAIN currentConfig
      deadlineToUse == IF deadline # <<>> THEN deadline
                       ELSE IF isUpdating THEN currentConfig[role].deadlineDuration
                       ELSE <<>>
      conditions == unique(conditionsInput)
      merged == IF isUpdating
                THEN IF deadline # <<>>
                     THEN [currentConfig[role] EXCEPT
                             !.deadlineDuration = deadline,
                             !.warnings = getDefaultConfig(deadline).warnings,
                             !.staffPingOffset = getDefaultConfig(deadline).staffPingOffset]
                     ELSE currentConfig[role]
                ELSE getDefaultConfig(deadlineToUse)
      withThreshold == IF patrolThresholdHours # <<>>
                       THEN With(merged, "patrolTimeThresholdHours", patrolThresholdHours[1])
                       ELSE merged
      roleConfig == IF Len(conditions) > 0
                    THEN With(withThreshold, "conditions", conditions)
                    ELSE IF /\ patrolThresholdHours # <<>>
                            /\ (~isUpdating \/ Len(withThreshold.conditions) = 0)
                    THEN With(withThreshold, "conditions", <<"PATROL", "TIME">>)
                    ELSE withThreshold
  IN IF deadlineToUse = <<>> THEN Refused(settings, "Deadline is required")
     ELSE IF deadline # <<>> /\ ~isValidDuration(deadline)
     THEN Refused(settings, "Invalid deadline format")
     ELSE IF patrolThresholdHours # <<>> /\ patrolThresholdHours[1] < 0
     THEN Refused(settings, "Patrol threshold hours must be a positive number")
     ELSE IF conditionsInput # <<>> /\ filterValid(conditionsInput) # conditionsInput
     THEN Refused(settings, "Invalid conditions")
     ELSE IF includes(conditions, "PATROL") /\ patrolThresholdHours = <<>>
     THEN Refused(settings, "PATROL condition requires patrol_threshold_hours")
     ELSE storeIfValid(settings, role, roleConfig, TRUE)

\* /settings role-tracking set-conditions
setConditions(settings, role, conditionsInput) ==
  LET currentConfig == settings.roleTrackingConfig
      uniqueConditions == unique(filterValid(conditionsInput))
  IN IF role \notin DOMAIN currentConfig THEN Refused(settings, "not configured for tracking")
     ELSE IF Len(filterValid(conditionsInput)) = 0 THEN Refused(settings, "Invalid conditions")
     ELSE IF /\ includes(uniqueConditions, "PATROL")
             /\ (~Has(currentConfig[role], "patrolTimeThresholdHours")
                   \/ Falsy(currentConfig[role].patrolTimeThresholdHours))
     THEN Refused(settings, "Cannot use PATROL condition without setting patrol time threshold")
     ELSE storeIfValid(settings, role, With(currentConfig[role], "conditions", uniqueConditions), FALSE)

\* warnings.push(warningData); warnings.sort((a, b) => a.index - b.index)
insertByIndex(warnings, warningData) ==
  LET before == SelectSeq(warnings, LAMBDA w : w.index <= warningData.index)
      after == SelectSeq(warnings, LAMBDA w : w.index > warningData.index)
  IN before \o <<warningData>> \o after

\* /settings role-tracking configure-warning with a message; warningNumber is <<>>
\* when the option is not given
configureWarning(settings, role, offset, warningNumber) ==
  LET currentConfig == settings.roleTrackingConfig
      roleConfig == currentConfig[role]
      deadlineMs == parseDurationToMs(roleConfig.deadlineDuration)
      offsetMs == parseDurationToMs(offset)
      indexes == {roleConfig.warnings[i].index : i \in 1 .. Len(roleConfig.warnings)}
      finalWarningNumber ==
        IF warningNumber # <<>> THEN warningNumber[1]
        ELSE IF indexes = {} THEN 0
        ELSE (CHOOSE x \in indexes : \A y \in indexes : y <= x) + 1
      warningData == Warning(finalWarningNumber, offset)
      warnings ==
        IF finalWarningNumber \in indexes
        THEN LET existingIndex == CHOOSE i \in 1 .. Len(roleConfig.warnings) :
                                    /\ roleConfig.warnings[i].index = finalWarningNumber
                                    /\ \A j \in 1 .. i - 1 : roleConfig.warnings[j].index # finalWarningNumber
             IN [roleConfig.warnings EXCEPT ![existingIndex] = warningData]
        ELSE insertByIndex(roleConfig.warnings, warningData)
  IN IF warningNumber # <<>> /\ warningNumber[1] < 0
     THEN Refused(settings, "Warning number must be 0 or greater")
     ELSE IF ~isValidDuration(offset) THEN Refused(settings, "Invalid offset format")
     ELSE IF role \notin DOMAIN currentConfig THEN Refused(settings, "not configured for tracking")
     ELSE IF Falsy(deadlineMs) \/ Falsy(offsetMs) THEN Refused(settings, "Failed to parse durations")
     ELSE IF offsetMs > deadlineMs THEN Refused(settings, "Warning offset exceeds deadline")
     ELSE storeIfValid(settings, role, [roleConfig EXCEPT !.warnings = warnings], FALSE)

\* the options an administrator gives the commands
CommandRoles == {"rTime"}
CommandDeadlines ==
  {<<>>, <<"2", " ", "w", "e", "e", "k", "s">>, <<"3", " ", "d", "a", "y", "s">>,
   <<"2", " ", "m", "o", "n", "t", "h", "s">>, <<"s", "o", "o", "n">>}
CommandConditions == {<<>>, <<"TIME">>, <<"PATROL", "TIME">>, <<"TIME", "TIME">>, <<"VOICE">>}
CommandThresholds == {<<>>, <<-2>>, <<5>>}
CommandOffsets ==
  {<<"1", " ", "w", "e", "e", "k">>, <<"3", " ", "d", "a", "y", "s">>,
   <<"1", " ", "m", "o", "n", "t", "h">>, <<"s", "o", "o", "n">>}
CommandWarningNumbers == {<<>>, <<0>>, <<1>>, <<5>>}

\* no role is configured and role tracking was never initialised
InitCommands ==
  /\ TrackerIdle
  /\ EscalationIdle
  /\ steps = 0
  /\ failedFinalize = [u \in Users |-> NoFailure]
  /\ guildSettings = [roleTrackingConfig |-> <<>>, roleTrackingInitializedAt |-> Null]
  /\ audit = NoAudit
  /\ sweepRuns = NoSweepRuns
  /\ last = [op |-> "init"]

\* one command: what it answered, the configuration it built, the settings before
Command(op, role, result) ==
  /\ steps < MaxCommands
  /\ steps' = steps + 1
  /\ guildSettings' = result.settings
  /\ last' = [op |-> op, role |-> role, before |-> guildSettings,
              candidate |-> result.candidate, reply |-> result.reply]
  /\ UNCHANGED <<trackerVars, escVars, failedFinalize, audit, sweepRuns>>

AddRole ==
  \E role \in CommandRoles, deadline \in CommandDeadlines, conditionsInput \in CommandConditions, h \in CommandThresholds :
    Command("addRole", role, addRole(guildSettings, role, deadline, conditionsInput, h))

SetConditions ==
  \E role \in CommandRoles, conditionsInput \in CommandConditions \ {<<>>} :
    Command("setConditions", role, setConditions(guildSettings, role, conditionsInput))

ConfigureWarning ==
  \E role \in CommandRoles, offset \in CommandOffsets, n \in CommandWarningNumbers :
    Command("configureWarning", role, configureWarning(guildSettings, role, offset, n))

NextCommands == AddRole \/ SetConditions \/ ConfigureWarning

SpecCommands == InitCommands /\ [][NextCommands]_vars

\* the last step was a command whose configuration fails validation
ValidationFailed ==
  /\ last.op \in {"addRole", "setConditions", "configureWarning"}
  /\ last.candidate # <<>>
  /\ ~validateRoleTrackingConfig(last.candidate[1]).valid

\* C34: when add-role, set-conditions or configure-warning builds a configuration
\* that fails validation, the reply lists the errors of the validation and the stored
\* settings of the guild are exactly what they were before the command.
C34_RejectedCommandWritesNothing ==
  ValidationFailed =>
    /\ last.reply.content = "Configuration validation failed"
    /\ last.reply.errors = validateRoleTrackingConfig(last.candidate[1]).errors
    /\ Len(last.reply.errors) > 0
    /\ guildSettings = last.before

\* add-role with a deadline shorter than a week is rejected on its generated
\* staff-ping offset, and the role stays as configured before
C34_Witness ==
  /\ ValidationFailed
  /\ last.op = "addRole"
  /\ last.role \in DOMAIN guildSettings.roleTrackingConfig
  /\ guildSettings.roleTrackingConfig[last.role] # last.candidate[1]

\* configure-warning is rejected for an offset before that of the warning ahead of it
C34_WitnessWarning ==
  /\ ValidationFailed
  /\ last.op = "configureWarning"
  /\ \E i \in 1 .. Len(last.reply.errors) :
       last.reply.errors[i].message = "Warning offsets must be in ascending order"

\* a command whose configuration passes is stored
C34_WitnessStored ==
  /\ last.op = "configureWarning"
  /\ last.candidate # <<>>
  /\ guildSettings # last.before
  /\ guildSettings.roleTrackingConfig[last.role] = last.candidate[1]

\* ===================================================== role-deadline escalation
\* parseDurationToMs of the duration strings of each role's configuration, as the
\* sweep computes them for every holder.  Without a staffPingOffset the call
\* throws on the missing string and the catch around the holder ends its turn,
\* the staff ping block being the last of the turn: as with an offset that does not
\* parse, no staff ping is due.
parsedConfig ==
  [r \in Roles |->
     [deadlineMs |-> parseDurationToMs(roleTrackingConfig[r].deadlineDuration),
      staffPingOffsetMs |-> IF Has(roleTrackingConfig[r], "staffPingOffset")
                            THEN parseDurationToMs(roleTrackingConfig[r].staffPingOffset)
                            ELSE Null,
      warningOffsetMs |->
        [i \in 1 .. Len(roleTrackingConfig[r].warnings) |->
           parseDurationToMs(roleTrackingConfig[r].warnings[i].offset)]]]

WarningIndexes == {0, 1}
StaffPingIndex == -1

\* a row of RoleTrackingWarning; assignmentTrackingId 0 stands for NULL
WarningRow(userId, roleId, warningIndex, roleAssignedAt, assignmentTrackingId) ==
  [user |-> userId, role |-> roleId, warningIndex |-> warningIndex,
   roleAssignedAt |-> roleAssignedAt, assignmentTrackingId |-> assignmentTrackingId]

\* a call the sweep makes to a delivery collaborator, with its outcome
Event(kind, userId, roleId, warningIndex, ok) ==
  [kind |-> kind, user |-> userId, role |-> roleId, index |-> warningIndex, ok |-> ok]

\* the tables and the member cache one sweep reads and writes, with the calls made
Tables == [warnings |-> roleTrackingWarning, assignments |-> roleAssignmentTracking,
           nextId |-> nextAssignmentId, cache |-> memberCache, events |-> {}]

SetTables(S) ==
  /\ roleTrackingWarning' = S.warnings
  /\ roleAssignmentTracking' = S.assignments
  /\ nextAssignmentId' = S.nextId
  /\ memberCache' = S.cache

trackRoleAssignment(S, userId, roleId) ==
  IF S.assignments[userId][roleId] # NoAssignment
  THEN [S EXCEPT !.assignments[userId][roleId].assignedAt = now]
  ELSE [S EXCEPT !.assignments[userId][roleId] = [id |-> S.nextId, assignedAt |-> now],
                 !.nextId = @ + 1]

\* variant: the warnings of the assignment outlive it
trackRoleRemoval_keepsWarnings(S, userId, roleId) ==
  [S EXCEPT !.assignments[userId][roleId] = NoAssignment]

\* the deleteMany, and the ON DELETE CASCADE of RoleTrackingWarning.assignmentTrackingId
trackRoleRemoval(S, userId, roleId) ==
  LET gone == S.assignments[userId][roleId]
  IN IF gone = NoAssignment THEN S
     ELSE [S EXCEPT !.assignments[userId][roleId] = NoAssignment,
                    !.warnings = {w \in @ : w.assignmentTrackingId # gone.id}]

\* variant: the warnings are deleted but the assignments keep their dates
handleLOARoleRemoval_noRebase(S, userId) ==
  [S EXCEPT !.warnings = {w \in @ : w.user # userId}]

handleLOARoleRemoval(S, userId) ==
  [S EXCEPT !.warnings = {w \in @ : w.user # userId},
            !.assignments[userId] =
               [r \in Roles |-> IF @[r] # NoAssignment
                                THEN [@[r] EXCEPT !.assignedAt = now] ELSE @[r]]]

getRoleAssignmentDate(S, userId, roleId, systemInitDate) ==
  IF S.assignments[userId][roleId] # NoAssignment
  THEN S.assignments[userId][roleId].assignedAt
  ELSE systemInitDate

\* the member is fetched (the holders the sweep lists are cached) and its roles read
\* variant: the leave role is never seen
hasLOARole_never(userId) == FALSE

hasLOARole(userId) == LoaRole \in memberRoles[userId]

\* PatrolTimerManager.getUserTotalForMonth, asked at time now
getUserTotalForMonth(userId, year, month) ==
  LET base == voicePatrolMonthlyTime[userId][<<year, month>>]
      isCurrentMonth == getUTCFullYear(now) = year /\ getUTCMonth(now) + 1 = month
  IN IF isCurrentMonth /\ ~isUserPaused(userId) /\ ~isUserPausedOrOnLOA(userId)
        /\ tracked[userId] # NoSession
     THEN base + Max(0, now - Max(tracked[userId].startedAt, DateUTC(year, month - 1)))
     ELSE base

\* the rows the findMany of getUserPatrolTimeInPeriod returns
monthlyRecords(startDate, endDate) ==
  LET startYear == getUTCFullYear(startDate)
      startMonth == getUTCMonth(startDate) + 1
      endYear == getUTCFullYear(endDate)
      endMonth == getUTCMonth(endDate) + 1
  IN {k \in MonthKeys :
        \/ k[1] >= startYear /\ k[2] >= startMonth
        \/ k[1] <= endYear /\ k[2] <= endMonth}

\* sameMs: the clock read after the query still shows endDate (the same millisecond)
getUserPatrolTimeInPeriod(userId, startDate, endDate, sameMs) ==
  LET found == monthlyRecords(startDate, endDate)
      counted == {k \in found :
                    DateUTC(k[1], k[2] - 1) <= endDate /\ MonthEnd(k) > startDate}
      totalMs == SumOver(voicePatrolMonthlyTime[userId], counted)
      current == <<getUTCFullYear(now), getUTCMonth(now) + 1>>
  IN IF sameMs /\ now >= startDate /\ now <= endDate
     THEN totalMs
          - (IF current \in found THEN voicePatrolMonthlyTime[userId][current] ELSE 0)
          + getUserTotalForMonth(userId, current[1], current[2])
     ELSE totalMs

checkPatrolTimeThreshold(userId, roleConfig, assignmentDate, sameMs) ==
  IF ~Has(roleConfig, "patrolTimeThresholdHours") \/ roleConfig.patrolTimeThresholdHours = 0
  THEN FALSE
  ELSE getUserPatrolTimeInPeriod(userId, assignmentDate, now, sameMs)
         >= roleConfig.patrolTimeThresholdHours * 60 * 60

removeWarningsForUser(S, userId, roleId, assignmentTrackingId) ==
  [S EXCEPT !.warnings =
     {w \in @ : ~(/\ w.user = userId
                  /\ w.role = roleId
                  /\ (assignmentTrackingId # 0
                        => w.assignmentTrackingId = assignmentTrackingId))}]

\* variant: the lookup fails and its catch answers false
hasReceivedWarning_lookupFails(W, userId, roleId, warningIndex, roleAssignedAt, assignmentTrackingId) == FALSE

\* by assignmentTrackingId when there is one, else by roleAssignedAt
hasReceivedWarning(W, userId, roleId, warningIndex, roleAssignedAt, assignmentTrackingId) ==
  IF assignmentTrackingId # 0
  THEN \E w \in W : /\ w.user = userId
                    /\ w.role = roleId
                    /\ w.warningIndex = warningIndex
                    /\ w.assignmentTrackingId = assignmentTrackingId
  ELSE \E w \in W : /\ w.user = userId
                    /\ w.role = roleId
                    /\ w.warningIndex = warningIndex
                    /\ w.roleAssignedAt = roleAssignedAt

\* the create fails on the unique index (guildId, userId, roleId, warningIndex,
\* roleAssignedAt); recordWarningSent catches and logs
recordWarningSent(W, userId, roleId, warningIndex, roleAssignedAt, assignmentTrackingId) ==
  IF \E w \in W : /\ w.user = userId
                  /\ w.role = roleId
                  /\ w.warningIndex = warningIndex
                  /\ w.roleAssignedAt = roleAssignedAt
  THEN W
  ELSE W \cup {WarningRow(userId, roleId, warningIndex, roleAssignedAt,
                          assignmentTrackingId)}

\* variant: the warning is recorded whatever sendWarningDM returned
recordIfDelivered_always(W, success, userId, roleId, warningIndex, roleAssignedAt, assignmentTrackingId) ==
  recordWarningSent(W, userId, roleId, warningIndex, roleAssignedAt,
                    assignmentTrackingId)

\* if (dmResult.success) recordWarningSent(...)
recordIfDelivered(W, success, userId, roleId, warningIndex, roleAssignedAt, assignmentTrackingId) ==
  IF success
  THEN recordWarningSent(W, userId, roleId, warningIndex, roleAssignedAt,
                         assignmentTrackingId)
  ELSE W

\* the loop over roleConfig.warnings, from position i on.  io.dmFail holds the
\* (user, index) pairs whose direct message fails in this sweep.
RECURSIVE sendDueWarnings(_, _, _, _, _, _, _)
sendDueWarnings(S, io, userId, roleId, assignmentDate, assignmentTrackingId, i) ==
  LET warnings == roleTrackingConfig[roleId].warnings
  IN IF i > Len(warnings) THEN S
     ELSE LET warning == warnings[i]
              warningOffsetMs == parsedConfig[roleId].warningOffsetMs[i]
              due == /\ ~Falsy(warningOffsetMs)
                     /\ now - assignmentDate >= warningOffsetMs
                     /\ ~hasReceivedWarning(S.warnings, userId, roleId, warning.index,
                                            assignmentDate, assignmentTrackingId)
              success == <<userId, warning.index>> \notin io.dmFail
              sent == [S EXCEPT
                         !.warnings = recordIfDelivered(@, success, userId, roleId,
                                        warning.index, assignmentDate,
                                        assignmentTrackingId),
                         !.events = @ \cup
                            {Event("dm", userId, roleId, warning.index, success),
                             Event("log", userId, roleId, warning.index, success)}]
          IN sendDueWarnings(IF due THEN sent ELSE S, io, userId, roleId,
                             assignmentDate, assignmentTrackingId, i + 1)

\* variant: a role without a usable staff ping offset is escalated at once
sendStaffPing_anyOffset(S, io, userId, roleId, assignmentDate, assignmentTrackingId) ==
  LET staffPingOffsetMs == parsedConfig[roleId].staffPingOffsetMs
      success == userId \notin io.chanFail
  IN IF /\ now - assignmentDate >= Max(staffPingOffsetMs, 0)
        /\ ~hasReceivedWarning(S.warnings, userId, roleId, StaffPingIndex,
                               assignmentDate, assignmentTrackingId)
     THEN [S EXCEPT
             !.warnings = recordWarningSent(@, userId, roleId, StaffPingIndex,
                                            assignmentDate, assignmentTrackingId),
             !.events = @ \cup
                {Event("staff", userId, roleId, StaffPingIndex, success)}]
     ELSE S

\* the staff ping block.  io.chanFail holds the users whose staff message cannot be
\* sent to the channel in this sweep; the fallback embed is then logged.
\* variant: the staff ping is sent whether or not the sentinel row exists
sendStaffPing_resend(S, io, userId, roleId, assignmentDate, assignmentTrackingId) ==
  LET staffPingOffsetMs == parsedConfig[roleId].staffPingOffsetMs
      success == userId \notin io.chanFail
  IN IF /\ ~Falsy(staffPingOffsetMs)
        /\ now - assignmentDate >= staffPingOffsetMs
     THEN [S EXCEPT
             !.warnings = recordWarningSent(@, userId, roleId, StaffPingIndex,
                                            assignmentDate, assignmentTrackingId),
             !.events = @ \cup
                {Event("staff", userId, roleId, StaffPingIndex, success)}
                \cup (IF success THEN {}
                      ELSE {Event("fallback", userId, roleId, StaffPingIndex, FALSE)})]
     ELSE S

sendStaffPing(S, io, userId, roleId, assignmentDate, assignmentTrackingId) ==
  LET staffPingOffsetMs == parsedConfig[roleId].staffPingOffsetMs
      success == userId \notin io.chanFail
  IN IF /\ ~Falsy(staffPingOffsetMs)
        /\ now - assignmentDate >= staffPingOffsetMs
        /\ ~hasReceivedWarning(S.warnings, userId, roleId, StaffPingIndex,
                               assignmentDate, assignmentTrackingId)
     THEN [S EXCEPT
             !.warnings = recordWarningSent(@, userId, roleId, StaffPingIndex,
                                            assignmentDate, assignmentTrackingId),
             !.events = @ \cup
                {Event("staff", userId, roleId, StaffPingIndex, success)}
                \cup (IF success THEN {}
                      ELSE {Event("fallback", userId, roleId, StaffPingIndex, FALSE)})]
     ELSE S

\* the body of the loop over role.members, for one holder of one role
\* variant: a role without conditions is processed like any other
processMember_noExempt(S, io, userId, roleId) ==
  LET roleConfig == roleTrackingConfig[roleId]
      assignmentDate == getRoleAssignmentDate(S, userId, roleId, roleTrackingInitializedAt)
      assignmentTracking == S.assignments[userId][roleId]
      activeConditions == IF Has(roleConfig, "conditions") THEN roleConfig.conditions
                          ELSE <<>>
      deadlineMs == parsedConfig[roleId].deadlineMs
      patrolThresholdMet ==
        /\ includes(activeConditions, "PATROL")
        /\ checkPatrolTimeThreshold(userId, roleConfig, assignmentDate, io.sameMs)
  IN IF hasLOARole(userId) THEN S
     ELSE IF Falsy(deadlineMs) THEN S
     ELSE IF patrolThresholdMet
     THEN removeWarningsForUser(S, userId, roleId, assignmentTracking.id)
     ELSE sendStaffPing(
            sendDueWarnings(S, io, userId, roleId, assignmentDate,
                            assignmentTracking.id, 1),
            io, userId, roleId, assignmentDate, assignmentTracking.id)

\* variant: the warnings and the staff ping are still evaluated after the grace
processMember_noSkip(S, io, userId, roleId) ==
  LET roleConfig == roleTrackingConfig[roleId]
      assignmentDate == getRoleAssignmentDate(S, userId, roleId, roleTrackingInitializedAt)
      assignmentTracking == S.assignments[userId][roleId]
      activeConditions == IF Has(roleConfig, "conditions") THEN roleConfig.conditions
                          ELSE <<>>
      deadlineMs == parsedConfig[roleId].deadlineMs
      patrolThresholdMet ==
        /\ includes(activeConditions, "PATROL")
        /\ checkPatrolTimeThreshold(userId, roleConfig, assignmentDate, io.sameMs)
      cleared == IF patrolThresholdMet
                 THEN removeWarningsForUser(S, userId, roleId, assignmentTracking.id)
                 ELSE S
  IN IF hasLOARole(userId) THEN S
     ELSE IF Len(activeConditions) = 0 THEN S
     ELSE IF Falsy(deadlineMs) THEN S
     ELSE sendStaffPing(
            sendDueWarnings(cleared, io, userId, roleId, assignmentDate,
                            assignmentTracking.id, 1),
            io, userId, roleId, assignmentDate, assignmentTracking.id)

processMember(S, io, userId, roleId) ==
  LET roleConfig == roleTrackingConfig[roleId]
      assignmentDate == getRoleAssignmentDate(S, userId, roleId, roleTrackingInitializedAt)
      assignmentTracking == S.assignments[userId][roleId]
      activeConditions == IF Has(roleConfig, "conditions") THEN roleConfig.conditions
                          ELSE <<>>
      deadlineMs == parsedConfig[roleId].deadlineMs
      hasPatrolCondition == includes(activeConditions, "PATROL")
      patrolThresholdMet ==
        /\ hasPatrolCondition
        /\ checkPatrolTimeThreshold(userId, roleConfig, assignmentDate, io.sameMs)
  IN IF hasLOARole(userId) THEN S
     ELSE IF <<userId, roleId>> \in io.throws THEN S
     ELSE IF Len(activeConditions) = 0 THEN S
     ELSE IF Falsy(deadlineMs) THEN S
     ELSE IF patrolThresholdMet
     THEN removeWarningsForUser(S, userId, roleId, assignmentTracking.id)
     ELSE sendStaffPing(
            sendDueWarnings(S, io, userId, roleId, assignmentDate,
                            assignmentTracking.id, 1),
            io, userId, roleId, assignmentDate, assignmentTracking.id)

\* cleanupWarningsForMissingUsers, for the users in todo.  A cached member resolves;
\* a member that is not cached is asked from the platform, which fails for the users
\* in io.fetchFail; whoever does not resolve loses every row.
RECURSIVE cleanupWarningsForMissingUsers(_, _, _)
RECURSIVE cleanupWarningsForMissingUsers_warningsOnly(_, _, _)
\* variant: the warnings of a missing user are deleted, the assignments are kept
cleanupWarningsForMissingUsers_warningsOnly(S, io, todo) ==
  IF todo = {} THEN S
  ELSE LET userId == CHOOSE u \in todo : TRUE
           resolves == userId \in inGuild
                       /\ (userId \in S.cache \/ userId \notin io.fetchFail)
           S2 == IF resolves THEN [S EXCEPT !.cache = @ \cup {userId}]
                 ELSE [S EXCEPT !.warnings = {w \in @ : w.user # userId}]
       IN cleanupWarningsForMissingUsers_warningsOnly(S2, io, todo \ {userId})

cleanupWarningsForMissingUsers(S, io, todo) ==
  IF todo = {} THEN S
  ELSE LET userId == CHOOSE u \in todo : TRUE
           resolves == userId \in inGuild
                       /\ (userId \in S.cache \/ userId \notin io.fetchFail)
           S2 == IF resolves THEN [S EXCEPT !.cache = @ \cup {userId}]
                 ELSE [S EXCEPT !.warnings = {w \in @ : w.user # userId},
                                !.assignments[userId] = [r \in Roles |-> NoAssignment]]
       IN cleanupWarningsForMissingUsers(S2, io, todo \ {userId})

\* the loops over the enabled roles and over role.members (the cached holders)
RECURSIVE processHolders_abort(_, _, _)
\* variant: the first holder whose lookup rejects ends the sweep
processHolders_abort(S, io, todo) ==
  IF todo = {} THEN S
  ELSE LET h == CHOOSE x \in todo : TRUE
       IN IF h \in io.throws /\ ~hasLOARole(h[1]) THEN S
          ELSE processHolders_abort(processMember(S, io, h[1], h[2]), io, todo \ {h})

RECURSIVE processHolders(_, _, _)
processHolders(S, io, todo) ==
  IF todo = {} THEN S
  ELSE LET h == CHOOSE x \in todo : TRUE
       IN processHolders(processMember(S, io, h[1], h[2]), io, todo \ {h})

checkAndSendWarnings(S, io) ==
  LET allUserIds == {u \in Users :
                       \/ \E w \in S.warnings : w.user = u
                       \/ \E r \in Roles : S.assignments[u][r] # NoAssignment}
      cleaned == cleanupWarningsForMissingUsers(S, io, allUserIds)
      holders == {h \in Users \X Roles :
                    /\ roleTrackingConfig[h[2]].enabled
                    /\ h[1] \in cleaned.cache
                    /\ h[2] \in memberRoles[h[1]]}
  IN processHolders(cleaned, io, holders)

\* ------------------------------------------------------- the sweep and its events
MaxSweepSteps == 3          \* events and sweeps in one run of the escalation engine

SweepStart == Instant(2024, 0, 20, 21, 0, 0)
SweepTicks == {SecPerDay, 7 * SecPerDay}
PatrolChoices == {0, 2 * 60 * 60}

trackerRest == <<up, voice, loaState, tracked, pausedUsers, pausedGuilds, pendingStart,
                 activeVoicePatrolSession, voicePatrolTime, voicePatrolMonthlyTime>>

\* u1 held rTime before tracking was initialised and has no assignment record; u2
\* was granted rPatrol eight days ago and may have patrolled since.
InitSweep ==
  /\ now = SweepStart
  /\ up = TRUE
  /\ voice = [u \in Users |-> Out]
  /\ inGuild = Users
  /\ loaState = [u \in Users |-> "none"]
  /\ tracked = [u \in Users |-> NoSession]
  /\ pausedUsers = {}
  /\ pausedGuilds = FALSE
  /\ pendingStart = [u \in Users |-> <<>>]
  /\ activeVoicePatrolSession = [u \in Users |-> NoSession]
  /\ \E p \in PatrolChoices :
       /\ voicePatrolTime = [u \in Users |-> IF u = "u2" THEN p ELSE 0]
       /\ voicePatrolMonthlyTime =
            [u \in Users |-> [k \in MonthKeys |->
               IF u = "u2" /\ k = <<2024, 1>> THEN p ELSE 0]]
  /\ memberRoles = [u \in Users |-> IF u = "u1" THEN {"rTime"} ELSE {"rPatrol"}]
  /\ memberCache \in {Users, {"u1"}}
  /\ roleAssignmentTracking =
       [u \in Users |-> [r \in Roles |->
          IF u = "u2" /\ r = "rPatrol"
          THEN [id |-> 1, assignedAt |-> Instant(2024, 0, 12, 21, 0, 0)]
          ELSE NoAssignment]]
  /\ nextAssignmentId = 2
  /\ roleTrackingWarning = {}
  /\ steps = 0
  /\ failedFinalize = [u \in Users |-> NoFailure]
  /\ guildSettings = SettingsOfTheRun
  /\ audit = NoAudit
  /\ sweepRuns = NoSweepRuns
  /\ last = [op |-> "init"]

SweepBudget == steps < MaxSweepSteps /\ steps' = steps + 1 /\ UNCHANGED <<failedFinalize, guildSettings, audit, sweepRuns>>

\* the calls of the latest sweep, as long as nothing but time has passed since
Carried == IF last.op \in {"sweep", "advance"} THEN last.events ELSE {}

\* time passes
Advance ==
  \E d \in SweepTicks :
    /\ SweepBudget
    /\ now' = now + d
    /\ last' = [op |-> "advance", events |-> Carried]
    /\ UNCHANGED <<inGuild, trackerRest, escVars>>

\* the inputs of a sweep in which every delivery succeeds
Delivered(fetchFail, sameMs) ==
  [dmFail |-> {}, chanFail |-> {}, fetchFail |-> fetchFail, sameMs |-> sameMs,
   throws |-> {}]

\* the outcomes of the second clock read of getUserPatrolTimeInPeriod: it only
\* matters while a session is open, whose live part it adds
ClockReads == IF \E u \in Users : tracked[u] # NoSession THEN BOOLEAN ELSE {FALSE}

\* checkRoleTracking: the daily (or manually triggered) sweep of the guild.  The
\* platform decides which member lookups fail and whether the clock moves during
\* the patrol query; an outcome is drawn for every message the sweep has to send.
checkRoleTracking ==
  \E fetchFail \in SUBSET (inGuild \ memberCache), sameMs \in ClockReads :
    \E calls \in {checkAndSendWarnings(Tables, Delivered(fetchFail, sameMs)).events} :
      \E dmFail \in SUBSET {<<e.user, e.index>> : e \in {x \in calls : x.kind = "dm"}},
         chanFail \in SUBSET {e.user : e \in {x \in calls : x.kind = "staff"}} :
        /\ SweepBudget
        /\ up
        /\ \E S \in {checkAndSendWarnings(Tables,
                        [dmFail |-> dmFail, chanFail |-> chanFail,
                         fetchFail |-> fetchFail, sameMs |-> sameMs,
                         throws |-> {}])} :
             /\ SetTables(S)
             /\ last' = [op |-> "sweep", events |-> S.events, prevOp |-> last.op,
                         prevEvents |-> Carried, rowsBefore |-> roleTrackingWarning,
                                assignmentsBefore |-> roleAssignmentTracking]
        /\ UNCHANGED <<now, inGuild, trackerRest, memberRoles>>

\* the loop of onGuildMemberUpdate over the configured roles
RECURSIVE trackRoleChanges(_, _, _, _, _)
trackRoleChanges(S, userId, oldRoles, newRoles, todo) ==
  IF todo = {} THEN S
  ELSE LET roleId == CHOOSE r \in todo : TRUE
           S2 == IF ~roleTrackingConfig[roleId].enabled THEN S
                 ELSE IF roleId \in newRoles \ oldRoles
                 THEN (IF LoaRole \in newRoles THEN S
                       ELSE trackRoleAssignment(S, userId, roleId))
                 ELSE IF roleId \in oldRoles \ newRoles
                 THEN trackRoleRemoval(S, userId, roleId)
                 ELSE S
       IN trackRoleChanges(S2, userId, oldRoles, newRoles, todo \ {roleId})

\* the role sets a member can have after one role was granted or revoked
RoleChanges(oldRoles) ==
  {oldRoles \cup {r} : r \in Roles \cup {LoaRole}}
    \cup {oldRoles \ {r} : r \in Roles \cup {LoaRole}}

\* the handler for member u whose roles become newRoles
memberUpdate(u, newRoles) ==
  /\ up
  /\ newRoles # memberRoles[u]
  /\ memberRoles' = [memberRoles EXCEPT ![u] = newRoles]
  /\ LET oldRoles == memberRoles[u]
         S0 == [Tables EXCEPT !.cache = @ \cup {u}]
         S1 == IF LoaRole \in oldRoles /\ LoaRole \notin newRoles
               THEN handleLOARoleRemoval(S0, u) ELSE S0
     IN SetTables(trackRoleChanges(S1, u, oldRoles, newRoles, Roles))
  /\ last' = [op |-> "memberUpdate", user |-> u, oldRoles |-> memberRoles[u],
              newRoles |-> newRoles, rowsBefore |-> roleTrackingWarning,
              assignmentsBefore |-> roleAssignmentTracking,
              nextIdBefore |-> nextAssignmentId]
  /\ UNCHANGED <<now, inGuild, trackerRest>>

\* guildMemberUpdate: the roles of a member changed, by one role an event
onGuildMemberUpdate ==
  \E u \in inGuild : \E newRoles \in RoleChanges(memberRoles[u]) :
    /\ SweepBudget
    /\ memberUpdate(u, newRoles)

\* a member leaves and no guildMemberRemove reaches the process: the rows of the
\* member stay until a sweep collects them
MemberLeft ==
  \E u \in inGuild :
    /\ SweepBudget
    /\ inGuild' = inGuild \ {u}
    /\ memberRoles' = [memberRoles EXCEPT ![u] = {}]
    /\ memberCache' = memberCache \ {u}
    /\ last' = [op |-> "memberLeft", user |-> u]
    /\ UNCHANGED <<now, trackerRest, roleAssignmentTracking, nextAssignmentId,
                   roleTrackingWarning>>

\* a member leaves a tracked channel after a patrol of two hours and the finalize
\* credits it: stopTrackingAndPersist for a session that began two hours ago
Patrolled ==
  \E u \in inGuild, d \in PatrolChoices \ {0} :
    /\ SweepBudget
    /\ up
    /\ \E L \in {stopTrackingAndPersist(
                    [Ledger EXCEPT !.tracked[u] = TrackedUser("c1", now - d)], u)} :
         /\ voicePatrolTime' = L.total
         /\ voicePatrolMonthlyTime' = L.monthly
    /\ last' = [op |-> "patrolled", user |-> u]
    /\ UNCHANGED <<now, up, voice, inGuild, loaState, tracked, pausedUsers, pausedGuilds,
                   pendingStart, activeVoicePatrolSession, escVars>>

MaxFaults == 1       \* holders whose assignment lookup rejects in one sweep

\* the sweep when roleAssignmentTracking.findUnique rejects for some holders: the
\* catch of the member loop logs the error and the loop goes on
checkRoleTrackingFaulty ==
  \E fetchFail \in SUBSET (inGuild \ memberCache), sameMs \in ClockReads :
    \E throws \in {t \in SUBSET {h \in Users \X Roles : h[2] \in memberRoles[h[1]]} :
                      Cardinality(t) <= MaxFaults} :
      \E calls \in {checkAndSendWarnings(Tables,
                        [Delivered(fetchFail, sameMs) EXCEPT !.throws = throws]).events} :
        \E dmFail \in SUBSET {<<e.user, e.index>> : e \in {x \in calls : x.kind = "dm"}},
           chanFail \in SUBSET {e.user : e \in {x \in calls : x.kind = "staff"}} :
          /\ SweepBudget
          /\ up
          /\ \E io \in {[dmFail |-> dmFail, chanFail |-> chanFail,
                          fetchFail |-> fetchFail, sameMs |-> sameMs,
                          throws |-> throws]} :
               \E S \in {checkAndSendWarnings(Tables, io)} :
                 /\ SetTables(S)
                 /\ last' = [op |-> "sweep", events |-> S.events, prevOp |-> last.op,
                             prevEvents |-> Carried, rowsBefore |-> roleTrackingWarning,
                             assignmentsBefore |-> roleAssignmentTracking,
                             tablesBefore |-> Tables, io |-> io]
          /\ UNCHANGED <<now, inGuild, trackerRest, memberRoles>>

\* sweeps with failing lookups, the passing of time and patrols between them
NextFaulty ==
  \/ Advance
  \/ checkRoleTrackingFaulty
  \/ Patrolled

SpecFaulty == InitSweep /\ [][NextFaulty]_vars

NextSweep ==
  \/ Advance
  \/ checkRoleTracking
  \/ onGuildMemberUpdate
  \/ MemberLeft
  \/ Patrolled

SpecSweep == InitSweep /\ [][NextSweep]_vars

\* ---- properties of the sweep ----

SameWarning(a, b) ==
  /\ a.user = b.user
  /\ a.role = b.role
  /\ a.warningIndex = b.warningIndex
  /\ a.assignmentTrackingId = b.assignmentTrackingId

\* the rows the latest sweep wrote
NewRows == roleTrackingWarning \ last.rowsBefore

Calls(events, kind) == {e \in events : e.kind = kind}

SameCall(e, p) == e.user = p.user /\ e.role = p.role /\ e.index = p.index

\* C3: a sweep that runs right after another sweep of the guild, with nothing in
\* between, leaves no two warning rows for the same (user, role, warningIndex,
\* assignment) and sends no staff escalation (index -1), by message or by
\* fallback embed, for a holder the sweep before it escalated.
C3_NoDuplicateNoResend ==
  (last.op = "sweep" /\ last.prevOp = "sweep") =>
    /\ \A a \in roleTrackingWarning : \A b \in roleTrackingWarning :
         SameWarning(a, b) => a = b
    /\ \A e \in Calls(last.events, "staff") \cup Calls(last.events, "fallback") :
         ~\E p \in Calls(last.prevEvents, "staff") : SameCall(e, p)

\* two sweeps in a row, the first of which escalated a holder to the staff and
\* recorded it
C3_Witness ==
  /\ last.op = "sweep"
  /\ last.prevOp = "sweep"
  /\ \E p \in Calls(last.prevEvents, "staff") :
       /\ p.ok
       /\ \E w \in roleTrackingWarning :
            w.user = p.user /\ w.role = p.role /\ w.warningIndex = StaffPingIndex
  /\ \E w \in roleTrackingWarning : w.warningIndex \in WarningIndexes

\* C4: in a sweep a row for a due warning is written only when its direct message
\* was delivered; a failed delivery writes no row; the staff log gets an entry for
\* every attempt, with the outcome of the attempt; and a warning whose delivery
\* failed in a sweep is attempted again by the sweep that comes next.
C4_RecordOnlyOnDelivery ==
  last.op = "sweep" =>
    /\ \A w \in NewRows :
         w.warningIndex # StaffPingIndex =>
           \E e \in Calls(last.events, "dm") :
             e.ok /\ e.user = w.user /\ e.role = w.role /\ e.index = w.warningIndex
    /\ \A e \in Calls(last.events, "dm") :
         /\ ~e.ok => ~\E w \in roleTrackingWarning :
                        w.user = e.user /\ w.role = e.role /\ w.warningIndex = e.index
         /\ \E l \in Calls(last.events, "log") : SameCall(l, e) /\ l.ok = e.ok
    /\ \A p \in Calls(last.prevEvents, "dm") :
         ~p.ok => \E e \in Calls(last.events, "dm") : SameCall(e, p)

\* a warning whose delivery failed in one sweep is delivered and recorded by the
\* next, while another delivery of that sweep fails
C4_Witness ==
  /\ last.op = "sweep"
  /\ \E p \in Calls(last.prevEvents, "dm") :
       /\ ~p.ok
       /\ \E e \in Calls(last.events, "dm") : SameCall(e, p) /\ e.ok
       /\ \E w \in NewRows :
            w.user = p.user /\ w.role = p.role /\ w.warningIndex = p.index
  /\ \E l \in Calls(last.events, "log") : ~l.ok

\* C5: when the channel send of the staff escalation fails in a sweep, no sentinel
\* row (warningIndex -1) is written for the holder.
C5_SentinelOnlyOnSuccess ==
  last.op = "sweep" =>
    \A e \in Calls(last.events, "staff") :
      ~e.ok => ~\E w \in roleTrackingWarning :
                  w.user = e.user /\ w.role = e.role /\ w.warningIndex = StaffPingIndex

\* ---- the example of the role without staff ping offset ----

EightDays == 8 * SecPerDay

\* u1 was granted rNoPing a moment ago (trackRoleAssignment wrote record 1);
\* nobody else holds a tracked role.
InitScenario ==
  /\ TrackerIdle
  /\ memberRoles = [u \in Users |-> IF u = "u1" THEN {"rNoPing"} ELSE {}]
  /\ memberCache = Users
  /\ roleAssignmentTracking =
       [u \in Users |-> [r \in Roles |->
          IF u = "u1" /\ r = "rNoPing"
          THEN [id |-> 1, assignedAt |-> StartOfRun]
          ELSE NoAssignment]]
  /\ nextAssignmentId = 2
  /\ roleTrackingWarning = {}
  /\ steps = 0
  /\ failedFinalize = [u \in Users |-> NoFailure]
  /\ guildSettings = SettingsOfTheRun
  /\ audit = NoAudit
  /\ sweepRuns = NoSweepRuns
  /\ last = [op |-> "init"]

SpecScenario == InitScenario /\ [][NextSweep]_vars

\* the holders of rNoPing a sweep finds eight days after their assignment, not on
\* leave and not warned before
EightDayHolders ==
  {u \in Users :
     /\ "rNoPing" \in memberRoles[u]
     /\ LoaRole \notin memberRoles[u]
     /\ last.assignmentsBefore[u]["rNoPing"] # NoAssignment
     /\ now - last.assignmentsBefore[u]["rNoPing"].assignedAt = EightDays
     /\ ~\E w \in last.rowsBefore : w.user = u /\ w.role = "rNoPing"}

\* C11: for the role with conditions [TIME], deadline 2 weeks, warning 0 at 1 week
\* and no staff ping offset, the sweep 8 days after the assignment sends warning 0
\* and records it exactly when it was delivered, sends no staff escalation, writes
\* no sentinel row and leaves the assignment and the role of the holder in place.
C11_EightDaySweep ==
  last.op = "sweep" =>
    \A u \in EightDayHolders :
      /\ \E e \in Calls(last.events, "dm") :
           /\ e.user = u /\ e.role = "rNoPing" /\ e.index = 0
           /\ e.ok <=> \E w \in roleTrackingWarning :
                         w.user = u /\ w.role = "rNoPing" /\ w.warningIndex = 0
      /\ ~\E e \in last.events :
            e.user = u /\ e.role = "rNoPing" /\ e.kind \in {"staff", "fallback"}
      /\ ~\E w \in roleTrackingWarning :
            w.user = u /\ w.role = "rNoPing" /\ w.warningIndex = StaffPingIndex
      /\ roleAssignmentTracking[u]["rNoPing"] = last.assignmentsBefore[u]["rNoPing"]
      /\ "rNoPing" \in memberRoles[u]

\* the sweep of the example has run and the warning was delivered and recorded
C11_Witness ==
  /\ last.op = "sweep"
  /\ \E u \in EightDayHolders :
       \E w \in roleTrackingWarning :
         /\ w.user = u /\ w.role = "rNoPing" /\ w.warningIndex = 0
         /\ w.assignmentTrackingId = roleAssignmentTracking[u]["rNoPing"].id

\* ---- properties of the role events ----

AllIndexes == WarningIndexes \cup {StaffPingIndex}

C16_WitnessRegrant ==
  /\ last.op = "memberUpdate"
  /\ last.user = "u2"
  /\ "rPatrol" \in last.newRoles \ last.oldRoles
  /\ roleAssignmentTracking["u2"]["rPatrol"].id > 1
  /\ roleAssignmentTracking["u2"]["rPatrol"].assignedAt = now

\* ---- properties of the grace condition ----

\* the last step was a sweep that reached holder u of role r, not on leave, with
\* conditions and a valid deadline
Reached(u, r) ==
  /\ last.op = "sweep"
  /\ roleTrackingConfig[r].enabled
  /\ u \in memberCache
  /\ r \in memberRoles[u]
  /\ ~hasLOARole(u)
  /\ Has(roleTrackingConfig[r], "conditions")
  /\ Len(roleTrackingConfig[r].conditions) > 0
  /\ ~Falsy(parsedConfig[r].deadlineMs)

\* the assignment date the sweep used for the holder
DateBefore(u, r) ==
  getRoleAssignmentDate([assignments |-> last.assignmentsBefore], u, r,
                        roleTrackingInitializedAt)

\* the sweep found the patrol time since the assignment date at or above
\* the threshold of the role (no session is open in these runs, so the live part
\* of the patrol time is empty)
GraceMet(u, r) ==
  /\ Reached(u, r)
  /\ includes(roleTrackingConfig[r].conditions, "PATROL")
  /\ checkPatrolTimeThreshold(u, roleTrackingConfig[r], DateBefore(u, r), FALSE)

\* C17: when a sweep finds the PATROL grace condition met for a holder, the
\* assignment keeps its id, its assignedAt is the instant of the sweep and no
\* warning row of the assignment is left.
C17_GraceRebases ==
  \A u \in Users, r \in Roles :
    (GraceMet(u, r) /\ last.assignmentsBefore[u][r] # NoAssignment) =>
      /\ roleAssignmentTracking[u][r].id = last.assignmentsBefore[u][r].id
      /\ roleAssignmentTracking[u][r].assignedAt = now
      /\ ~\E w \in roleTrackingWarning :
            w.assignmentTrackingId = last.assignmentsBefore[u][r].id

\* C18: when a sweep finds the PATROL threshold met for a holder, no warning row of
\* that (user, role, assignment) is left, the sweep sent the holder no warning and
\* no staff escalation for the role, and wrote no row for the holder and the role.
C18_GraceSkipsCycle ==
  \A u \in Users, r \in Roles :
    GraceMet(u, r) =>
      /\ ~\E w \in roleTrackingWarning :
            /\ w.user = u
            /\ w.role = r
            /\ (last.assignmentsBefore[u][r].id # 0
                  => w.assignmentTrackingId = last.assignmentsBefore[u][r].id)
      /\ ~\E e \in last.events : e.user = u /\ e.role = r
      /\ ~\E w \in roleTrackingWarning \ last.rowsBefore : w.user = u /\ w.role = r

\* the grace was met by a holder who had been warned: the row was there before the
\* sweep and the warning would have been due again without it
C18_Witness ==
  \E u \in Users, r \in Roles :
    /\ GraceMet(u, r)
    /\ last.assignmentsBefore[u][r] # NoAssignment
    /\ now - last.assignmentsBefore[u][r].assignedAt >= parsedConfig[r].warningOffsetMs[1]
    /\ \E w \in last.rowsBefore :
         /\ w.user = u
         /\ w.role = r
         /\ w.assignmentTrackingId = last.assignmentsBefore[u][r].id

\* ---- properties of the staff escalation ----

\* the staff escalation of holder u for role r was due in the last sweep: the sweep
\* reached the holder, the staff ping offset of the role had elapsed since the
\* assignment date, no sentinel row counted for the assignment, and the grace
\* condition was not met
StaffDue(u, r) ==
  /\ Reached(u, r)
  /\ ~Falsy(parsedConfig[r].staffPingOffsetMs)
  /\ now - DateBefore(u, r) >= parsedConfig[r].staffPingOffsetMs
  /\ ~hasReceivedWarning(last.rowsBefore, u, r, StaffPingIndex, DateBefore(u, r),
                         last.assignmentsBefore[u][r].id)
  /\ ~GraceMet(u, r)

StaffSent(u, r) ==
  \E e \in last.events : e.kind = "staff" /\ e.user = u /\ e.role = r

\* C19: a sweep sends the staff escalation for a holder exactly when the staff ping
\* offset has elapsed since the assignment date, no sentinel row exists for the
\* assignment and the grace condition is not met; the sentinel row is then
\* recorded, no sentinel row is written otherwise, and no escalation is sent
\* before the offset has elapsed.
C19_StaffPingExactlyWhenDue ==
  last.op = "sweep" =>
    \A u \in Users, r \in Roles :
      /\ StaffSent(u, r) <=> StaffDue(u, r)
      /\ StaffDue(u, r) =>
           hasReceivedWarning(roleTrackingWarning, u, r, StaffPingIndex,
                              DateBefore(u, r), last.assignmentsBefore[u][r].id)
      /\ (\E w \in roleTrackingWarning \ last.rowsBefore :
            w.user = u /\ w.role = r /\ w.warningIndex = StaffPingIndex)
           => StaffDue(u, r)
      /\ StaffSent(u, r) =>
           now - DateBefore(u, r) >= parsedConfig[r].staffPingOffsetMs

\* an escalation was sent and its sentinel row was written by this sweep
C19_Witness ==
  \E u \in Users, r \in Roles :
    /\ StaffDue(u, r)
    /\ StaffSent(u, r)
    /\ \E w \in roleTrackingWarning \ last.rowsBefore :
         w.user = u /\ w.role = r /\ w.warningIndex = StaffPingIndex

\* a later sweep finds the sentinel row and sends nothing
C19_WitnessOnce ==
  \E u \in Users, r \in Roles :
    /\ Reached(u, r)
    /\ hasReceivedWarning(last.rowsBefore, u, r, StaffPingIndex, DateBefore(u, r),
                          last.assignmentsBefore[u][r].id)
    /\ ~StaffSent(u, r)

\* a holder reached before the offset has elapsed is not escalated
C19_WitnessNotYet ==
  \E u \in Users, r \in Roles :
    /\ Reached(u, r)
    /\ ~GraceMet(u, r)
    /\ ~Falsy(parsedConfig[r].staffPingOffsetMs)
    /\ now - DateBefore(u, r) < parsedConfig[r].staffPingOffsetMs
    /\ ~StaffSent(u, r)

\* ---- properties of the end of a leave ----

\* C20: when the leave role is taken from a member, no warning row of the member is
\* left (whatever the role or the index), every assignment of the member keeps its
\* id and has assignedAt = now, no assignment is created, and the assignments and
\* warning rows of the other members are as before.
C20_LeaveEndResets ==
  (last.op = "memberUpdate" /\ LoaRole \in last.oldRoles \ last.newRoles) =>
    /\ ~\E w \in roleTrackingWarning : w.user = last.user
    /\ \A r \in Roles :
         roleAssignmentTracking[last.user][r] =
           IF last.assignmentsBefore[last.user][r] # NoAssignment
           THEN [last.assignmentsBefore[last.user][r] EXCEPT !.assignedAt = now]
           ELSE NoAssignment
    /\ nextAssignmentId = last.nextIdBefore
    /\ \A v \in Users \ {last.user} :
         roleAssignmentTracking[v] = last.assignmentsBefore[v]
    /\ {w \in roleTrackingWarning : w.user # last.user}
         = {w \in last.rowsBefore : w.user # last.user}

\* the leave of a warned holder ended: the rows are gone, the assignment starts
\* over, and another member still has rows
C20_Witness ==
  /\ last.op = "memberUpdate"
  /\ LoaRole \in last.oldRoles \ last.newRoles
  /\ \E w \in last.rowsBefore : w.user = last.user
  /\ \E r \in Roles :
       /\ last.assignmentsBefore[last.user][r] # NoAssignment
       /\ last.assignmentsBefore[last.user][r].assignedAt < now
       /\ roleAssignmentTracking[last.user][r].assignedAt = now
  /\ \E w \in roleTrackingWarning : w.user # last.user

\* ---- the role without conditions ----

\* u1 has held rExempt and u2 has held rTime since 2024-01-01 (records 1 and 2);
\* u1 may still have the warning row of the time when rExempt had conditions
InitExempt ==
  /\ now = SweepStart
  /\ up = TRUE
  /\ voice = [u \in Users |-> Out]
  /\ inGuild = Users
  /\ loaState = [u \in Users |-> "none"]
  /\ tracked = [u \in Users |-> NoSession]
  /\ pausedUsers = {}
  /\ pausedGuilds = FALSE
  /\ pendingStart = [u \in Users |-> <<>>]
  /\ activeVoicePatrolSession = [u \in Users |-> NoSession]
  /\ voicePatrolTime = [u \in Users |-> 0]
  /\ voicePatrolMonthlyTime = [u \in Users |-> [k \in MonthKeys |-> 0]]
  /\ memberRoles = [u \in Users |-> IF u = "u1" THEN {"rExempt"} ELSE {"rTime"}]
  /\ memberCache = Users
  /\ roleAssignmentTracking =
       [u \in Users |-> [r \in Roles |->
          IF u = "u1" /\ r = "rExempt" THEN [id |-> 1, assignedAt |-> 0]
          ELSE IF u = "u2" /\ r = "rTime" THEN [id |-> 2, assignedAt |-> 0]
          ELSE NoAssignment]]
  /\ nextAssignmentId = 3
  /\ roleTrackingWarning \in {{}, {WarningRow("u1", "rExempt", 0, 0, 1)}}
  /\ steps = 0
  /\ failedFinalize = [u \in Users |-> NoFailure]
  /\ guildSettings = SettingsOfTheRun
  /\ audit = NoAudit
  /\ sweepRuns = NoSweepRuns
  /\ last = [op |-> "init"]

SpecExempt == InitExempt /\ [][NextSweep]_vars

\* the enabled roles whose condition set is empty
ExemptRoles ==
  {r \in Roles : /\ roleTrackingConfig[r].enabled
                 /\ (Has(roleTrackingConfig[r], "conditions")
                       => Len(roleTrackingConfig[r].conditions) = 0)}

RowsOf(W, u, r) == {w \in W : w.user = u /\ w.role = r}

\* C21: a sweep sends nothing for a role whose condition set is empty and writes no
\* warning row for it; the warning rows and the assignment of every holder of
\* such a role are after the sweep what they were before it.
C21_NoConditionsExempt ==
  last.op = "sweep" =>
    \A r \in ExemptRoles :
      /\ ~\E e \in last.events : e.role = r
      /\ ~\E w \in roleTrackingWarning \ last.rowsBefore : w.role = r
      /\ \A u \in memberCache :
           r \in memberRoles[u] =>
             /\ RowsOf(roleTrackingWarning, u, r) = RowsOf(last.rowsBefore, u, r)
             /\ roleAssignmentTracking[u][r] = last.assignmentsBefore[u][r]

\* a sweep passed over a holder whose role without conditions was assigned longer
\* ago than every offset of the role, whose old warning row is still there, while
\* the sweep sent something to another holder
C21_Witness ==
  /\ last.op = "sweep"
  /\ \E r \in ExemptRoles, u \in memberCache :
       /\ r \in memberRoles[u]
       /\ ~hasLOARole(u)
       /\ last.assignmentsBefore[u][r] # NoAssignment
       /\ now - last.assignmentsBefore[u][r].assignedAt >= parsedConfig[r].staffPingOffsetMs
       /\ now - last.assignmentsBefore[u][r].assignedAt >= parsedConfig[r].warningOffsetMs[1]
       /\ RowsOf(roleTrackingWarning, u, r) # {}
       /\ \E e \in last.events : e.user # u

\* ---- properties of the holders on leave ----

\* C22: a sweep sends nothing for a member who has the leave role, and the warning
\* rows and the assignments of such a member the sweep sees are after the sweep
\* what they were before it.
C22_OnLeaveSkipped ==
  last.op = "sweep" =>
    \A u \in Users :
      LoaRole \in memberRoles[u] =>
        /\ ~\E e \in last.events : e.user = u
        /\ u \in memberCache =>
             /\ {w \in roleTrackingWarning : w.user = u}
                  = {w \in last.rowsBefore : w.user = u}
             /\ roleAssignmentTracking[u] = last.assignmentsBefore[u]

\* a sweep passed over a holder on leave whose first warning was due and not sent
C22_Witness ==
  /\ last.op = "sweep"
  /\ \E u \in memberCache, r \in Roles \ ExemptRoles :
       /\ LoaRole \in memberRoles[u]
       /\ r \in memberRoles[u]
       /\ now - DateBefore(u, r) >= parsedConfig[r].warningOffsetMs[1]
       /\ ~hasReceivedWarning(last.rowsBefore, u, r, 0, DateBefore(u, r),
                              last.assignmentsBefore[u][r].id)
       /\ ~\E e \in last.events : e.user = u

\* a sweep passed over a holder on leave who had been warned before the leave
C22_WitnessRows ==
  /\ last.op = "sweep"
  /\ \E u \in memberCache :
       /\ LoaRole \in memberRoles[u]
       /\ \E w \in roleTrackingWarning : w.user = u

\* ---- properties of the garbage collection ----

\* C23: after a sweep no warning row and no assignment belongs to a user who is
\* not a member of the guild.
C23_NoRowsOfNonMembers ==
  last.op = "sweep" =>
    \A u \in Users \ inGuild :
      /\ ~\E w \in roleTrackingWarning : w.user = u
      /\ \A r \in Roles : roleAssignmentTracking[u][r] = NoAssignment

\* the sweep removed the warning rows and the assignment of a member who had left
C23_Witness ==
  /\ last.op = "sweep"
  /\ \E u \in Users \ inGuild :
       /\ \E w \in last.rowsBefore : w.user = u
       /\ \E r \in Roles : last.assignmentsBefore[u][r] # NoAssignment

\* ---- properties of a sweep with failing lookups ----

EventsOf(E, u, r) == {e \in E : e.user = u /\ e.role = r}

MonthlySum(u) == SumOver(voicePatrolMonthlyTime[u], MonthKeys)

\* C31: for every user the monthly buckets add up to the all-time total, in every
\* state reached by finalizes, adjustUserTime and reset.
C31_MonthsSumToTotal ==
  \A u \in Users : MonthlySum(u) = voicePatrolTime[u]

\* the finalizes keep the two sides equal as long as no reset or adjustment ran
C31_FinalizeKeepsSum ==
  last.op = "stop" =>
    MonthlySum(last.user) - SumOver(last.monthlyBefore, MonthKeys)
      = voicePatrolTime[last.user] - last.totalBefore

\* ============================================ finalize with rejected writes
\* the finalizes of the last step that found the session of an earlier failed finalize
Refinalized ==
  {f \in Finalized :
     /\ failedFinalize[f.user] # NoFailure
     /\ f.session.startedAt = failedFinalize[f.user].startedAt}

\* the session is gone and the rejection left the finalize
FailedFinalizeClears ==
  last.op = "stopFailed" =>
    /\ tracked[last.user] = NoSession
    /\ last.thrown # {}

\* no later finalize adds the failed session's time to a total or bucket that has it
NoSecondCredit ==
  \A f \in Refinalized :
    /\ failedFinalize[f.user].total => voicePatrolTime[f.user] = f.totalBefore
    /\ \A k \in failedFinalize[f.user].months :
         voicePatrolMonthlyTime[f.user][k] = f.monthlyBefore[k]

\* C32: when a write of the ledger increment of a finalize rejects, the in-memory
\* session is gone afterwards, the error leaves the finalize, and no later event adds
\* the time of the failed session a second time to the all-time total or to a
\* monthly bucket.
C32_FailedIncrementNoDoubleCredit == FailedFinalizeClears /\ NoSecondCredit

\* ============================================ what an accepted configuration is
Offsets(c) == [i \in 1 .. Len(c.warnings) |-> parseDurationToMs(c.warnings[i].offset)]
UsesPatrol(c) == Has(c, "conditions") /\ includes(c.conditions, "PATROL")

\* the parts of the invariant the validator does enforce: offsets that parse, in
\* ascending order with equal neighbours let through, none beyond the deadline, the
\* staff ping not beyond the deadline, and a threshold present with PATROL
AcceptedConfigBounds ==
  (last.op = "validated" /\ last.result.valid) =>
    LET c == last.config
        deadlineMs == parseDurationToMs(c.deadlineDuration)
    IN /\ deadlineMs # Null
       /\ \A i \in 1 .. Len(c.warnings) : Offsets(c)[i] # Null /\ Offsets(c)[i] <= deadlineMs
       /\ \A i \in 1 .. Len(c.warnings) - 1 : Offsets(c)[i] <= Offsets(c)[i + 1]
       /\ parseDurationToMs(c.staffPingOffset) # Null
       /\ parseDurationToMs(c.staffPingOffset) <= deadlineMs
       /\ UsesPatrol(c) => Has(c, "patrolTimeThresholdHours")

\* C33: every configuration validateRoleTrackingConfig accepts has warning offsets
\* strictly ascending and none beyond the deadline, a staff-ping offset not beyond the
\* deadline, and, with PATROL among its conditions, a threshold that is set and that
\* checkPatrolTimeThreshold treats as set.
C33_AcceptedConfigWellFormed ==
  (last.op = "validated" /\ last.result.valid) =>
    LET c == last.config
    IN /\ AcceptedConfigBounds
       /\ \A i \in 1 .. Len(c.warnings) - 1 : Offsets(c)[i] < Offsets(c)[i + 1]
       /\ UsesPatrol(c) => ~Falsy(c.patrolTimeThresholdHours)

\* ------------------------------------------------ warnings in ascending index order
\* the rows of one assignment: those of its record, or for a holder without a
\* record (assignmentTrackingId NULL) those of its assignment date
SameAssignment(v, w) ==
  /\ v.user = w.user
  /\ v.role = w.role
  /\ v.assignmentTrackingId = w.assignmentTrackingId
  /\ (w.assignmentTrackingId = 0 => v.roleAssignedAt = w.roleAssignedAt)

ConfiguredIndexes(r) ==
  {roleTrackingConfig[r].warnings[i].index : i \in 1 .. Len(roleTrackingConfig[r].warnings)}

InIndexOrder(W) ==
  \A w \in W :
    w.warningIndex >= 0 =>
      \A j \in ConfiguredIndexes(w.role) :
        j < w.warningIndex =>
          \E v \in W : SameAssignment(v, w) /\ v.warningIndex = j

\* C35: in every reachable state a Warning row with index k >= 0 of an assignment
\* comes with a row for every configured index j < k of that assignment, also
\* after sweeps in which some deliveries failed.
C35_WarningsInIndexOrder == InIndexOrder(roleTrackingWarning)

\* the order is kept by every sweep all of whose direct messages were delivered
C35_DeliveredSweepsKeepOrder ==
  (/\ last.op = "sweep"
   /\ InIndexOrder(last.rowsBefore)
   /\ \A e \in last.events : e.kind = "dm" => e.ok)
  => InIndexOrder(roleTrackingWarning)

\* ------------------------------------------- patrol time inside an assignment's window
WindowStart == Instant(2024, 0, 10, 21, 0, 0)

\* the part of a credited session that lies inside [startDate, endDate]
InsideWindow(s, startDate, endDate) ==
  Max(0, Min(s.endedAt, endDate) - Max(s.startedAt, startDate))

RECURSIVE SumOverlap(_, _, _)
SumOverlap(S, startDate, endDate) ==
  IF S = {} THEN 0
  ELSE LET s == CHOOSE x \in S : TRUE
       IN InsideWindow(s, startDate, endDate) + SumOverlap(S \ {s}, startDate, endDate)

\* the tracked time the user accrued inside [startDate, endDate]
accruedInWindow(userId, startDate, endDate) ==
  SumOverlap({s \in audit.credited : s.user = userId}, startDate, endDate)

\* nobody holds a tracked role; u2 has patrolled for two hours until now, or not
InitWindow ==
  /\ now = WindowStart
  /\ up = TRUE
  /\ voice = [u \in Users |-> Out]
  /\ inGuild = Users
  /\ loaState = [u \in Users |-> "none"]
  /\ tracked = [u \in Users |-> NoSession]
  /\ pausedUsers = {}
  /\ pausedGuilds = FALSE
  /\ pendingStart = [u \in Users |-> <<>>]
  /\ activeVoicePatrolSession = [u \in Users |-> NoSession]
  /\ \E p \in PatrolChoices :
       /\ voicePatrolTime = [u \in Users |-> IF u = "u2" THEN p ELSE 0]
       /\ voicePatrolMonthlyTime =
            [u \in Users |-> [k \in MonthKeys |->
               IF u = "u2" /\ k = <<2024, 1>> THEN p ELSE 0]]
       /\ audit = [NoAudit EXCEPT !.credited =
                     IF p = 0 THEN {}
                     ELSE {[user |-> "u2", startedAt |-> now - p, endedAt |-> now]}]
  /\ sweepRuns = NoSweepRuns
  /\ EscalationIdle
  /\ steps = 0
  /\ failedFinalize = [u \in Users |-> NoFailure]
  /\ guildSettings = SettingsOfTheRun
  /\ last = [op |-> "init"]

\* a member patrols for d seconds and leaves the channel now; the session is
\* credited through stopTrackingAndPersist and noted in the audit
PatrolLogged ==
  \E u \in inGuild, d \in PatrolChoices \ {0} :
    /\ steps < MaxSweepSteps
    /\ steps' = steps + 1
    /\ up
    /\ \A s \in audit.credited : s.user = u => s.endedAt <= now - d
    /\ \E L \in {stopTrackingAndPersist(
                    [Ledger EXCEPT !.tracked[u] = TrackedUser("c1", now - d)], u)} :
         /\ voicePatrolTime' = L.total
         /\ voicePatrolMonthlyTime' = L.monthly
    /\ audit' = [audit EXCEPT !.credited =
                   @ \cup {[user |-> u, startedAt |-> now - d, endedAt |-> now]}]
    /\ last' = [op |-> "patrolled", user |-> u]
    /\ UNCHANGED <<now, up, voice, inGuild, loaState, tracked, pausedUsers, pausedGuilds,
                   pendingStart, activeVoicePatrolSession, escVars, failedFinalize,
                   guildSettings, sweepRuns>>

NextWindow ==
  \/ Advance
  \/ PatrolLogged
  \/ onGuildMemberUpdate
  \/ checkRoleTracking

SpecWindow == InitWindow /\ [][NextWindow]_vars

\* the holders whose patrol time the latest sweep compared with the threshold,
\* with the assignment date the sweep used
ComparedHolders ==
  {h \in Users \X Roles :
     /\ last.op = "sweep"
     /\ h[1] \in memberCache
     /\ h[2] \in memberRoles[h[1]]
     /\ roleTrackingConfig[h[2]].enabled
     /\ includes(roleTrackingConfig[h[2]].conditions, "PATROL")
     /\ ~hasLOARole(h[1])}

sweptAssignmentDate(h) ==
  getRoleAssignmentDate([Tables EXCEPT !.assignments = last.assignmentsBefore],
                        h[1], h[2], roleTrackingInitializedAt)

\* C36: the tracked time the sweep compares with the PATROL threshold of an
\* assignment equals the time the holder accrued inside [assignedAt, now]; time
\* credited before assignedAt is not counted.
C36_ThresholdCountsWindowOnly ==
  \A h \in ComparedHolders :
    getUserPatrolTimeInPeriod(h[1], sweptAssignmentDate(h), now, FALSE)
      = accruedInWindow(h[1], sweptAssignmentDate(h), now)

\* the sweep never counts less than the holder accrued inside the window
C36_WindowTimeIsCounted ==
  \A h \in ComparedHolders :
    getUserPatrolTimeInPeriod(h[1], sweptAssignmentDate(h), now, FALSE)
      >= accruedInWindow(h[1], sweptAssignmentDate(h), now)

\* a holder is taken to have met the threshold without a second patrolled since
\* the grant, and is not warned
C36_GraceFromEarlierTime ==
  \E h \in ComparedHolders :
    /\ accruedInWindow(h[1], sweptAssignmentDate(h), now) = 0
    /\ checkPatrolTimeThreshold(h[1], roleTrackingConfig[h[2]], sweptAssignmentDate(h), FALSE)
    /\ now - sweptAssignmentDate(h) >= 7 * SecPerDay
    /\ \A e \in last.events : e.user # h[1]

\* ------------------------------------------------------------ unpause and rebase
\* u1 sits in c1 with a session open since the run began, and u1 or the guild is
\* paused: the state a pause leaves that was granted while the leave lookup of
\* the zone-enter was pending (the start that follows does not look at the pause)
InitUnpause ==
  /\ now = StartOfRun
  /\ up = TRUE
  /\ voice = [u \in Users |-> IF u = "u1" THEN "c1" ELSE Out]
  /\ inGuild = Users
  /\ loaState = [u \in Users |-> "none"]
  /\ tracked = [u \in Users |-> IF u = "u1" THEN TrackedUser("c1", now) ELSE NoSession]
  /\ activeVoicePatrolSession = tracked
  /\ \E byGuild \in BOOLEAN :
       /\ pausedGuilds = byGuild
       /\ pausedUsers = IF byGuild THEN {} ELSE {"u1"}
  /\ pendingStart = [u \in Users |-> <<>>]
  /\ voicePatrolTime = [u \in Users |-> 0]
  /\ voicePatrolMonthlyTime = [u \in Users |-> [k \in MonthKeys |-> 0]]
  /\ EscalationIdle
  /\ steps = 0
  /\ failedFinalize = [u \in Users |-> NoFailure]
  /\ guildSettings = SettingsOfTheRun
  /\ audit = NoAudit
  /\ sweepRuns = NoSweepRuns
  /\ last = [op |-> "init"]

NextUnpause ==
  \/ Tick
  \/ unpauseUser
  \/ unpauseGuild
  \/ VoiceLeave
  \/ Crash
  \/ DownVoice
  \/ Startup

SpecUnpause == InitUnpause /\ [][NextUnpause]_vars

\* the state InitUnpause begins in, as the tracker reaches it
PausedWithOpenSession ==
  \E u \in Users :
    /\ tracked[u] # NoSession
    /\ activeVoicePatrolSession[u] = tracked[u]
    /\ isUserPaused(u)

\* what a finalize added to the all-time total of its user
Credited(f) == voicePatrolTime[f.user] - f.totalBefore

\* C37: unpauseUser and unpauseGuild clear the pause flag and set the startedAt of
\* every affected open session to the unpause time, and when such a session is
\* finalized later, by a zone exit or by the crash recovery of a restart, no time
\* from before the unpause is credited.
C37_UnpauseRebases ==
  /\ last.op = "unpauseUser" =>
        /\ last.user \notin pausedUsers
        /\ tracked[last.user] # NoSession => tracked[last.user].startedAt = now
  /\ last.op = "unpauseGuild" =>
        /\ ~pausedGuilds
        /\ \A u \in Users : tracked[u] # NoSession => tracked[u].startedAt = now
  /\ \A f \in Finalized :
        (f.session # NoSession /\ audit.unpausedAt[f.user] # -1) =>
           Credited(f) <= now - audit.unpausedAt[f.user]

\* the unpause itself: the flag is cleared and the session in memory rebased
C37_UnpauseRebasesMemory ==
  /\ last.op = "unpauseUser" =>
        /\ last.user \notin pausedUsers
        /\ tracked[last.user] # NoSession => tracked[last.user].startedAt = now
  /\ last.op = "unpauseGuild" =>
        /\ ~pausedGuilds
        /\ \A u \in Users : tracked[u] # NoSession => tracked[u].startedAt = now

\* a zone exit after the unpause credits nothing from before it
C37_ExitCreditsSinceUnpause ==
  \A f \in Finalized :
    (last.op = "stop" /\ f.session # NoSession /\ audit.unpausedAt[f.user] # -1) =>
       Credited(f) <= now - audit.unpausedAt[f.user]

\* ------------------------------------------- garbage collection and present members
\* the latest sweep left the assignments and the warning rows of user u as they
\* were, but for the rows it removed because the grace condition was met
RowsKept(u) ==
  /\ \A r \in Roles :
       last.assignmentsBefore[u][r] # NoAssignment =>
         roleAssignmentTracking[u][r] = last.assignmentsBefore[u][r]
  /\ \A w \in last.rowsBefore :
       (w.user = u /\ ~GraceMet(u, w.role)) => w \in roleTrackingWarning

\* C38: the garbage collection of a sweep never deletes the RoleAssignment or
\* Warning rows of a user who is still a member of the guild, also when the member
\* lookup for that user fails.
C38_GCKeepsRowsOfMembers ==
  last.op = "sweep" => \A u \in inGuild : RowsKept(u)

\* the rows of every member whose lookup resolved in the sweep are kept
C38_ResolvedMembersKeepRows ==
  last.op = "sweep" => \A u \in inGuild \cap memberCache : RowsKept(u)

\* ------------------------------------------------- the clock of a role granted late
\* the audit notes when member u was granted each tracked role now held
Granted(u, newRoles) ==
  [audit EXCEPT !.grantedAt[u] =
     [r \in Roles |-> IF r \notin newRoles THEN -1
                      ELSE IF r \notin memberRoles[u] THEN now
                      ELSE @[r]]]

\* role tracking has been running since roleTrackingInitializedAt; nobody holds a
\* tracked role, and u2 is on leave (holds the leave role) or not
InitGrant ==
  /\ now = SweepStart
  /\ up = TRUE
  /\ voice = [u \in Users |-> Out]
  /\ inGuild = Users
  /\ loaState = [u \in Users |-> "none"]
  /\ tracked = [u \in Users |-> NoSession]
  /\ pausedUsers = {}
  /\ pausedGuilds = FALSE
  /\ pendingStart = [u \in Users |-> <<>>]
  /\ activeVoicePatrolSession = [u \in Users |-> NoSession]
  /\ voicePatrolTime = [u \in Users |-> 0]
  /\ voicePatrolMonthlyTime = [u \in Users |-> [k \in MonthKeys |-> 0]]
  /\ \E onLeave \in BOOLEAN :
       memberRoles = [u \in Users |-> IF u = "u2" /\ onLeave THEN {LoaRole} ELSE {}]
  /\ memberCache = Users
  /\ roleAssignmentTracking = [u \in Users |-> [r \in Roles |-> NoAssignment]]
  /\ nextAssignmentId = 1
  /\ roleTrackingWarning = {}
  /\ steps = 0
  /\ failedFinalize = [u \in Users |-> NoFailure]
  /\ guildSettings = SettingsOfTheRun
  /\ audit = NoAudit
  /\ sweepRuns = NoSweepRuns
  /\ last = [op |-> "init"]

\* guildMemberUpdate, with the grant noted in the audit
onGuildMemberUpdateNoted ==
  \E u \in inGuild : \E newRoles \in RoleChanges(memberRoles[u]) :
    /\ steps < MaxSweepSteps
    /\ steps' = steps + 1
    /\ memberUpdate(u, newRoles)
    /\ audit' = Granted(u, newRoles)
    /\ UNCHANGED <<failedFinalize, guildSettings, sweepRuns>>

NextGrant ==
  \/ Advance
  \/ onGuildMemberUpdateNoted
  \/ checkRoleTracking

SpecGrant == InitGrant /\ [][NextGrant]_vars

\* C39: for a tracked role granted after role tracking was initialised, the clock
\* the sweep uses for the holder is never earlier than the time of the grant, also
\* when the role was granted during a leave that ended afterwards; no warning and
\* no escalation of such a holder rests on roleTrackingInitializedAt.
C39_ClockNotBeforeGrant ==
  \A u \in Users, r \in Roles :
    (Reached(u, r) /\ audit.grantedAt[u][r] # -1) =>
       /\ DateBefore(u, r) >= audit.grantedAt[u][r]
       /\ \A e \in last.events :
            (e.user = u /\ e.role = r) => DateBefore(u, r) # roleTrackingInitializedAt

\* a holder whose grant was recorded is on a clock that is not before the grant
C39_RecordedGrantClock ==
  \A u \in Users, r \in Roles :
    (Reached(u, r) /\ audit.grantedAt[u][r] # -1
       /\ last.assignmentsBefore[u][r] # NoAssignment) =>
       DateBefore(u, r) >= audit.grantedAt[u][r]

\* a holder granted the role during the run is escalated to the staff by a sweep
\* on roleTrackingInitializedAt
C39_EscalatedOnInitClock ==
  \E u \in Users, r \in Roles :
    /\ Reached(u, r)
    /\ audit.grantedAt[u][r] >= SweepStart
    /\ DateBefore(u, r) = roleTrackingInitializedAt
    /\ \E e \in Calls(last.events, "staff") : e.user = u /\ e.role = r

\* ------------------------------------------------------------- overlapping sweeps
\* checkRoleTracking has no lock: the cron job and the inactivity command each run
\* checkAndSendWarnings, which awaits at every database and platform call.  A run
\* is followed call by call: for each message that is due, the has-received
\* lookup, the send, and the create of the row.

RECURSIVE dueWarnings(_, _, _, _, _)
\* the warnings of the role that are due at the assignment date, in list order
dueWarnings(userId, roleId, assignmentDate, assignmentTrackingId, i) ==
  LET warnings == roleTrackingConfig[roleId].warnings
  IN IF i > Len(warnings) THEN <<>>
     ELSE LET warningOffsetMs == parsedConfig[roleId].warningOffsetMs[i]
              rest == dueWarnings(userId, roleId, assignmentDate, assignmentTrackingId, i + 1)
          IN IF ~Falsy(warningOffsetMs) /\ now - assignmentDate >= warningOffsetMs
             THEN <<[kind |-> "dm", user |-> userId, role |-> roleId,
                     index |-> warnings[i].index, roleAssignedAt |-> assignmentDate,
                     assignmentTrackingId |-> assignmentTrackingId]>> \o rest
             ELSE rest

\* the staff ping of the role, if it is due
dueStaffPing(userId, roleId, assignmentDate, assignmentTrackingId) ==
  LET staffPingOffsetMs == parsedConfig[roleId].staffPingOffsetMs
  IN IF ~Falsy(staffPingOffsetMs) /\ now - assignmentDate >= staffPingOffsetMs
     THEN <<[kind |-> "staff", user |-> userId, role |-> roleId,
             index |-> StaffPingIndex, roleAssignedAt |-> assignmentDate,
             assignmentTrackingId |-> assignmentTrackingId]>>
     ELSE <<>>

\* the turn of one holder, as processMember decides it: nothing for a holder on
\* leave or a role without conditions or deadline, the removal of the rows when
\* the grace condition is met, the due messages otherwise
memberItems(S, userId, roleId) ==
  LET roleConfig == roleTrackingConfig[roleId]
      assignmentDate == getRoleAssignmentDate(S, userId, roleId, roleTrackingInitializedAt)
      assignmentTracking == S.assignments[userId][roleId]
      activeConditions == IF Has(roleConfig, "conditions") THEN roleConfig.conditions
                          ELSE <<>>
  IN IF hasLOARole(userId) THEN <<>>
     ELSE IF Len(activeConditions) = 0 THEN <<>>
     ELSE IF Falsy(parsedConfig[roleId].deadlineMs) THEN <<>>
     ELSE IF /\ includes(activeConditions, "PATROL")
             /\ checkPatrolTimeThreshold(userId, roleConfig, assignmentDate, FALSE)
     THEN <<[kind |-> "clear", user |-> userId, role |-> roleId, index |-> 0,
             roleAssignedAt |-> assignmentDate,
             assignmentTrackingId |-> assignmentTracking.id]>>
     ELSE dueWarnings(userId, roleId, assignmentDate, assignmentTracking.id, 1)
            \o dueStaffPing(userId, roleId, assignmentDate, assignmentTracking.id)

RECURSIVE holderItems(_, _)
holderItems(S, todo) ==
  IF todo = {} THEN <<>>
  ELSE LET h == CHOOSE x \in todo : TRUE
       IN memberItems(S, h[1], h[2]) \o holderItems(S, todo \ {h})

\* u1 held rTime before tracking was initialised, fifteen days ago; u2 was granted
\* rPatrol eight days ago and has patrolled since, or not; no message was sent yet
InitOverlap ==
  /\ now = SweepStart
  /\ up = TRUE
  /\ voice = [u \in Users |-> Out]
  /\ inGuild = Users
  /\ loaState = [u \in Users |-> "none"]
  /\ tracked = [u \in Users |-> NoSession]
  /\ pausedUsers = {}
  /\ pausedGuilds = FALSE
  /\ pendingStart = [u \in Users |-> <<>>]
  /\ activeVoicePatrolSession = [u \in Users |-> NoSession]
  /\ \E p \in PatrolChoices :
       /\ voicePatrolTime = [u \in Users |-> IF u = "u2" THEN p ELSE 0]
       /\ voicePatrolMonthlyTime =
            [u \in Users |-> [k \in MonthKeys |->
               IF u = "u2" /\ k = <<2024, 1>> THEN p ELSE 0]]
  /\ memberRoles = [u \in Users |-> IF u = "u1" THEN {"rTime"} ELSE {"rPatrol"}]
  /\ memberCache = Users
  /\ roleAssignmentTracking =
       [u \in Users |-> [r \in Roles |->
          IF u = "u2" /\ r = "rPatrol"
          THEN [id |-> 1, assignedAt |-> Instant(2024, 0, 12, 21, 0, 0)]
          ELSE NoAssignment]]
  /\ nextAssignmentId = 2
  /\ roleTrackingWarning = {}
  /\ steps = 0
  /\ failedFinalize = [u \in Users |-> NoFailure]
  /\ guildSettings = SettingsOfTheRun
  /\ audit = NoAudit
  /\ sweepRuns = NoSweepRuns
  /\ last = [op |-> "init"]

\* what a step of a running sweep leaves alone
SweepStepFrame ==
  UNCHANGED <<now, inGuild, trackerRest, memberRoles, steps, failedFinalize,
              guildSettings, audit>>

\* sweep id goes on to its next item
NextItem(run) == [run EXCEPT !.i = @ + 1, !.pc = "check"]

\* the cron job fires, or the inactivity command is run: the garbage collection
\* and the listing of the holders of the enabled roles
startSweep ==
  \E id \in SweepIds :
    /\ up
    /\ sweepRuns.of[id].pc = "idle"
    /\ LET allUserIds == {u \in Users :
                            \/ \E w \in roleTrackingWarning : w.user = u
                            \/ \E r \in Roles : roleAssignmentTracking[u][r] # NoAssignment}
           cleaned == cleanupWarningsForMissingUsers(Tables, Delivered({}, FALSE), allUserIds)
           holders == {h \in Users \X Roles :
                         /\ roleTrackingConfig[h[2]].enabled
                         /\ h[1] \in cleaned.cache
                         /\ h[2] \in memberRoles[h[1]]}
       IN /\ SetTables(cleaned)
          /\ sweepRuns' = [sweepRuns EXCEPT
                             !.of[id] = [pc |-> "check", i |-> 1,
                                         items |-> holderItems(cleaned, holders)],
                             !.overlapped = @ \/ \E other \in SweepIds \ {id} :
                                                   sweepRuns.of[other].pc \notin {"idle", "done"}]
    /\ last' = [op |-> "startSweep", sweep |-> id]
    /\ SweepStepFrame

\* the sweep has worked through its items
endSweep ==
  \E id \in SweepIds :
    /\ sweepRuns.of[id].pc = "check"
    /\ sweepRuns.of[id].i > Len(sweepRuns.of[id].items)
    /\ sweepRuns' = [sweepRuns EXCEPT !.of[id].pc = "done"]
    /\ last' = [op |-> "endSweep", sweep |-> id]
    /\ SweepStepFrame
    /\ UNCHANGED escVars

\* await hasReceivedWarning for the item, or the removal of the rows of a holder
\* whose grace condition is met
checkItem ==
  \E id \in SweepIds :
    LET run == sweepRuns.of[id]
    IN /\ run.pc = "check"
       /\ run.i <= Len(run.items)
       /\ LET item == run.items[run.i]
          IN IF item.kind = "clear"
             THEN /\ roleTrackingWarning' =
                       removeWarningsForUser(Tables, item.user, item.role,
                                             item.assignmentTrackingId).warnings
                  /\ sweepRuns' = [sweepRuns EXCEPT !.of[id] = NextItem(run)]
             ELSE /\ UNCHANGED roleTrackingWarning
                  /\ sweepRuns' = [sweepRuns EXCEPT !.of[id] =
                       IF hasReceivedWarning(roleTrackingWarning, item.user, item.role,
                                             item.index, item.roleAssignedAt,
                                             item.assignmentTrackingId)
                       THEN NextItem(run)
                       ELSE [run EXCEPT !.pc = "send"]]
       /\ last' = [op |-> "checkItem", sweep |-> id]
       /\ SweepStepFrame
       /\ UNCHANGED <<memberCache, roleAssignmentTracking, nextAssignmentId>>

\* await sendWarningDM, or await sendCustomMessageToStaffChannel: the platform
\* decides whether the message gets through.  An undelivered warning is not
\* recorded; the staff ping is recorded whatever the channel answered.
sendItem ==
  \E id \in SweepIds, ok \in BOOLEAN :
    LET run == sweepRuns.of[id]
    IN /\ run.pc = "send"
       /\ LET item == run.items[run.i]
          IN sweepRuns' =
               [sweepRuns EXCEPT
                  !.sent = @ \cup {[sweep |-> id, user |-> item.user, role |-> item.role,
                                    index |-> item.index, ok |-> ok]},
                  !.of[id] = IF ok \/ item.kind = "staff"
                             THEN [run EXCEPT !.pc = "record"]
                             ELSE NextItem(run)]
       /\ last' = [op |-> "sendItem", sweep |-> id]
       /\ SweepStepFrame
       /\ UNCHANGED escVars

\* await recordWarningSent: the create, which the unique index rejects when the
\* row is there already
recordItem ==
  \E id \in SweepIds :
    LET run == sweepRuns.of[id]
    IN /\ run.pc = "record"
       /\ LET item == run.items[run.i]
          IN roleTrackingWarning' =
               recordWarningSent(roleTrackingWarning, item.user, item.role, item.index,
                                 item.roleAssignedAt, item.assignmentTrackingId)
       /\ sweepRuns' = [sweepRuns EXCEPT !.of[id] = NextItem(run)]
       /\ last' = [op |-> "recordItem", sweep |-> id]
       /\ SweepStepFrame
       /\ UNCHANGED <<memberCache, roleAssignmentTracking, nextAssignmentId>>

NextOverlap ==
  \/ startSweep
  \/ checkItem
  \/ sendItem
  \/ recordItem
  \/ endSweep

SpecOverlap == InitOverlap /\ [][NextOverlap]_vars

\* the messages that got out: a delivered warning, a staff ping sent to the channel
\* or, when the channel failed, the fallback embed that pings in its place
GotOut == {m \in sweepRuns.sent : m.ok \/ m.index = StaffPingIndex}

SameMessage(a, b) == a.user = b.user /\ a.role = b.role /\ a.index = b.index

\* C40: two sweeps of the guild that overlap never deliver the same warning index
\* of an assignment twice and never send its staff escalation twice.
C40_OverlapSendsOnce ==
  \A a \in GotOut : \A b \in GotOut : SameMessage(a, b) => a = b

\* the unique index keeps one row for each message, however the sweeps interleave
C40_OneRowEach ==
  \A a \in roleTrackingWarning : \A b \in roleTrackingWarning :
    (a.user = b.user /\ a.role = b.role /\ a.warningIndex = b.warningIndex
       /\ a.roleAssignedAt = b.roleAssignedAt) => a = b

\* two sweeps one of which ends before the other begins send every message once
C40_SerialSweepsSendOnce ==
  ~sweepRuns.overlapped => \A a \in GotOut : \A b \in GotOut : SameMessage(a, b) => a = b

\* both sweeps have sent the staff escalation of a holder
C40_EscalatedTwice ==
  \E a \in sweepRuns.sent : \E b \in sweepRuns.sent :
    a.index = StaffPingIndex /\ SameMessage(a, b) /\ a.sweep # b.sweep

====
